---- MODULE Spec2Model ----
(***************************************************************************)
(* Model of the Dixon harmonisation pipeline of iBEAt-improc               *)
(* (src/src/dixon_2_data.py): the channel classifiers and their per-       *)
(* patient ledger, the fat/water swap table, the slice-gap interpolation   *)
(* and the per-site drivers that write volumes to the clean database.      *)
(*                                                                         *)
(* Strings that the code edits (channel names) are sequences of the tokens *)
(* between underscores: 'Dixon_1_out_phase' is <<"Dixon","1","out",        *)
(* "phase">> and 'Dixon_1_' is <<"Dixon","1","">>.  Slice locations are    *)
(* integers counting half millimetres.                                     *)
(***************************************************************************)
EXTENDS Integers, Sequences, FiniteSets, TLC

VARIABLES
    \* ---- classifier / ledger (one patient) ----
    lsite,        \* site whose classifier is applied to the ledger
    all_series,   \* the ledger: list of names assigned so far (pat_series)
    lhist,        \* history: one record per classifier call
    \* ---- swap_fat_water ----
    record,       \* rows of fat_water_swap_record.csv
    sw_call,      \* arguments of the last call, or NoCall
    sw_ret,       \* address returned by the last call
    \* ---- gap interpolation ----
    ip_series,    \* the series handed to the interpolation: [crd, arr]
    ip_fn,        \* which routine ran
    ip_out,       \* its result
    \* ---- a site driver run over the download folders ----
    site,         \* the driver: leeds, bari, sheffield, ...
    visit,        \* the visit argument of the driver
    run,          \* 1 or 2: the driver is run a second time on the same data
    ended,        \* how the runs so far ended: "done" or "aborted"
    pc,           \* where the driver stands
    pi,           \* index of the patient folder in the listing
    si,           \* archives of the folder dealt with so far
    src,          \* the archives of each folder, as far as they were read
    closed,       \* folders whose archives were all read
    pat_series,   \* the ledger of the patient
    tmp_series_folder,  \* name -> archive, of the patient
    wi,           \* position in the ordered write loop
    vol,          \* turku_philips: the local variable vol
    store,        \* the clean database: address -> volume
    writes,       \* history: the write_volume calls
    log,          \* error.log
    temps,        \* temporary directories that exist
    made,         \* history: temporary directories created
    last,         \* history: the last archive dealt with
    \* ---- two processes running one driver on the same database ----
    waiting,      \* the local variables of the process that is not running
    switches,     \* how often the running process changed
    \* ---- kidney masks (utils/radiomics.py, kidneyvol_3_edit.py) ----
    mask_in,      \* the input of the mask routine
    mask_fn,      \* which routine ran
    mask_out      \* its result

ledgerVars == <<lsite, all_series, lhist>>
swapVars == <<record, sw_call, sw_ret>>
interpVars == <<ip_series, ip_fn, ip_out>>
driverVars == <<site, visit, run, ended, pc, pi, si, src, closed, pat_series, tmp_series_folder,
                wi, vol, store, writes, log, temps, made, last>>
workerVars == <<waiting, switches>>
maskVars == <<mask_in, mask_fn, mask_out>>
vars == <<lsite, all_series, lhist, record, sw_call, sw_ret, ip_series, ip_fn, ip_out,
          site, visit, run, ended, pc, pi, si, src, closed, pat_series, tmp_series_folder,
          wi, vol, store, writes, log, temps, made, last, waiting, switches,
          mask_in, mask_fn, mask_out>>

\* One process only
WorkersIdle == waiting = <<>> /\ switches = 0

\* No mask routine runs
MasksIdle == mask_in = <<>> /\ mask_fn = "" /\ mask_out = <<>>

\* The driver state of the specifications in which no driver runs
DriverIdle ==
    /\ site = "" /\ visit = "" /\ run = 0 /\ ended = <<>> /\ pc = "" /\ pi = 0 /\ si = 0
    /\ src = <<>> /\ closed = {} /\ pat_series = <<>> /\ tmp_series_folder = <<>>
    /\ wi = 0 /\ vol = <<>> /\ store = <<>> /\ writes = <<>> /\ log = <<>>
    /\ temps = {} /\ made = 0 /\ last = <<>>
    /\ WorkersIdle

Range(s) == {s[i] : i \in 1..Len(s)}

(***************************************************************************)
(* Strings                                                                 *)
(***************************************************************************)

\* str(counter) for the counters the ledger can reach
DecimalStr == <<"1", "2", "3", "4", "5", "6", "7", "8", "9">>
Str(k) == DecimalStr[k]

\* a + b for two strings given as token sequences: the last token of a and
\* the first token of b become one token
Cat(a, b) == SubSeq(a, 1, Len(a) - 1) \o <<a[Len(a)] \o b[1]>> \o Tail(b)

\* s.replace('_1_', '_<k>_'): every non-overlapping occurrence, left to
\* right.  A token "1" is an occurrence when it has an underscore on both
\* sides and its left underscore was not used up by the previous occurrence.
RECURSIVE ReplaceFrom(_, _, _, _)
ReplaceFrom(s, i, k, prevHit) ==
    IF i > Len(s) THEN <<>>
    ELSE LET hit == s[i] = "1" /\ i > 1 /\ i < Len(s) /\ ~prevHit
         IN  <<IF hit THEN Str(k) ELSE s[i]>> \o ReplaceFrom(s, i + 1, k, hit)

Replace(s, k) == ReplaceFrom(s, 1, k, FALSE)

\* decimal digits of n, zero-padded to width w (the number in an archive
\* name such as series_04.zip or series_0401.zip)
RECURSIVE DigitsOf(_, _)
DigitsOf(n, w) ==
    IF n < 10 /\ w <= 1 THEN <<n>>
    ELSE DigitsOf(n \div 10, w - 1) \o <<n % 10>>

\* int(digits)
RECURSIVE IntOf(_)
IntOf(ds) ==
    IF ds = <<>> THEN 0 ELSE 10 * IntOf(SubSeq(ds, 1, Len(ds) - 1)) + ds[Len(ds)]

(***************************************************************************)
(* Channel names                                                           *)
(***************************************************************************)

Dixon_1_ == <<"Dixon", "1", "">>
Dixon_post_contrast_1_ == <<"Dixon", "post", "contrast", "1", "">>

in_phase == <<"in", "phase">>
out_phase == <<"out", "phase">>
water == <<"water">>
fat == <<"fat">>

IN_PHASE == <<"IN", "PHASE">>
OUT_PHASE == <<"OUT", "PHASE">>
WATER == <<"WATER">>
FAT == <<"FAT">>

(***************************************************************************)
(* Channel classifiers and the ledger                                      *)
(***************************************************************************)

LeedsThreshold == 20
BariThreshold == 1000
TurkuPhilipsThreshold == 1000
SheffieldEchoTime == 2
TurkuEchoTime == 2

\* What a classifier call leaves behind: whether it raised, and the ledger
Ret(raised, all) == [raised |-> raised, all_series |-> all]

\* counter = 2; while new in all_series: new = name.replace('_1_', ...)
IncrementIf(series_name, new_series_name, counter, all) ==
    IF new_series_name \in Range(all)
    THEN Replace(series_name, counter)
    ELSE new_series_name

RECURSIVE Increment(_, _, _, _)
Increment(series_name, new_series_name, counter, all) ==
    IF new_series_name \in Range(all)
    THEN Increment(series_name, Replace(series_name, counter), counter + 1, all)
    ELSE new_series_name

\* all_series = [new_series_name]
NumberedOnly(series_name, all) ==
    <<Increment(series_name, series_name, 2, all)>>

\* all_series.append(new_series_name)
AddNumbered(series_name, all) ==
    Append(all, Increment(series_name, series_name, 2, all))

\* -- Leeds: position heuristic on the last two characters of the folder
\*    name, image type from ImageType[3]
leeds_series_name(folder) ==
    LET name == folder.name
        series_nr == IntOf(SubSeq(name, Len(name) - 1, Len(name)))
        series_name == IF series_nr < LeedsThreshold
                       THEN Dixon_1_ ELSE Dixon_post_contrast_1_
        props == folder.ImageType[4]
    IN  CASE props = IN_PHASE -> Cat(series_name, in_phase)
          [] props = OUT_PHASE -> Cat(series_name, out_phase)
          [] props = WATER -> Cat(series_name, water)
          [] props = FAT -> Cat(series_name, fat)
          [] OTHER -> Cat(series_name, props)

leeds_add_series_name(folder, all) ==
    IF Len(folder.ImageType) < 4     \* image_type[3]: IndexError
    THEN Ret(TRUE, all)
    ELSE Ret(FALSE, AddNumbered(leeds_series_name(folder), all))

\* -- Bordeaux and Exeter: description lookup
Dixon_1(type) == Cat(Dixon_1_, type)
Dixon_post_contrast_1(type) == Cat(Dixon_post_contrast_1_, type)

bordeaux_new_series_desc ==
    ("T1w_abdomen_dixon_cor_bh_opp" :> Dixon_1(out_phase)) @@
    ("T1w_abdomen_dixon_cor_bh_in" :> Dixon_1(in_phase)) @@
    ("T1w_abdomen_dixon_cor_bh_F" :> Dixon_1(fat)) @@
    ("T1w_abdomen_dixon_cor_bh_W" :> Dixon_1(water)) @@
    ("T1w_abdomen_post_contrast_dixon_cor_bh_opp" :> Dixon_post_contrast_1(out_phase)) @@
    ("T1w_abdomen_post_contrast_dixon_cor_bh_in" :> Dixon_post_contrast_1(in_phase)) @@
    ("T1w_abdomen_post_contrast_dixon_cor_bh_F" :> Dixon_post_contrast_1(fat)) @@
    ("T1w_abdomen_post_contrast_dixon_cor_bh_W" :> Dixon_post_contrast_1(water))

exeter_new_series_desc == bordeaux_new_series_desc

bordeaux_add_series_desc(folder, all) ==
    IF folder.SeriesDescription \notin DOMAIN bordeaux_new_series_desc   \* KeyError
    THEN Ret(TRUE, all)
    ELSE Ret(FALSE, AddNumbered(bordeaux_new_series_desc[folder.SeriesDescription], all))

exeter_add_series_desc(folder, all) ==
    IF folder.SeriesDescription \notin DOMAIN exeter_new_series_desc     \* KeyError
    THEN Ret(TRUE, all)
    ELSE Ret(FALSE, AddNumbered(exeter_new_series_desc[folder.SeriesDescription], all))

\* -- Sheffield and Turku GE: echo time for Philips, description lookup
\*    for the other manufacturers
sheffield_new_series_desc ==
    ("WATER: T1_abdomen_dixon_cor_bh" :> Dixon_1(water)) @@
    ("FAT: T1_abdomen_dixon_cor_bh" :> Dixon_1(fat)) @@
    ("InPhase: T1_abdomen_dixon_cor_bh" :> Dixon_1(in_phase)) @@
    ("OutPhase: T1_abdomen_dixon_cor_bh" :> Dixon_1(out_phase)) @@
    ("WATER: T1_abdomen_post_contrast_dixon_cor_bh" :> Dixon_post_contrast_1(water)) @@
    ("FAT: T1_abdomen_post_contrast_dixon_cor_bh" :> Dixon_post_contrast_1(fat)) @@
    ("InPhase: T1_abdomen_post_contrast_dixon_cor_bh" :> Dixon_post_contrast_1(in_phase)) @@
    ("OutPhase: T1_abdomen_post_contrast_dixon_cor_bh" :> Dixon_post_contrast_1(out_phase))

turku_new_series_desc == sheffield_new_series_desc

philips_series_desc(folder, te) ==
    IF folder.EchoTime < te
    THEN IF folder.SeriesDescription = "T1w_abdomen_dixon_cor_bh"
         THEN Dixon_1(out_phase) ELSE Dixon_post_contrast_1(out_phase)
    ELSE IF folder.SeriesDescription = "T1w_abdomen_dixon_cor_bh"
         THEN Dixon_1(in_phase) ELSE Dixon_post_contrast_1(in_phase)

sheffield_add_series_desc(folder, all) ==
    IF folder.Manufacturer = "Philips Healthcare"
    THEN Ret(FALSE, AddNumbered(philips_series_desc(folder, SheffieldEchoTime), all))
    ELSE IF folder.SeriesDescription \notin DOMAIN sheffield_new_series_desc
         THEN Ret(TRUE, all)
         ELSE Ret(FALSE, AddNumbered(sheffield_new_series_desc[folder.SeriesDescription], all))

turku_add_series_desc(folder, all) ==
    IF folder.Manufacturer = "Philips Healthcare"
    THEN Ret(FALSE, AddNumbered(philips_series_desc(folder, TurkuEchoTime), all))
    ELSE IF folder.SeriesDescription \notin DOMAIN turku_new_series_desc
         THEN Ret(TRUE, all)
         ELSE Ret(FALSE, AddNumbered(turku_new_series_desc[folder.SeriesDescription], all))

\* -- Bari and Turku Philips: position heuristic on the number in the
\*    archive name (name[7:])
bari_series_name(name) ==
    IF IntOf(name) < BariThreshold THEN Dixon_1_ ELSE Dixon_post_contrast_1_

bari_add_series_name(name, all) == Ret(FALSE, AddNumbered(bari_series_name(name), all))

turku_philips_series_name(name) ==
    IF IntOf(name) < TurkuPhilipsThreshold THEN Dixon_1_ ELSE Dixon_post_contrast_1_

turku_philips_add_series_name(name, all) ==
    Ret(FALSE, AddNumbered(turku_philips_series_name(name), all))


(***************************************************************************)
(* Classifying the series of one patient: the inputs                       *)
(***************************************************************************)

\* Classifier calls made on one ledger
MaxCalls == 3

ClassifierSites ==
    {"leeds", "bordeaux", "exeter", "sheffield", "turku", "bari", "turku_philips"}

\* Series numbers of the archives, and the width their number is padded to
\* in the archive name (series_04.zip at Leeds, series_0401.zip at Bari)
LeedsFolders ==
    { [SeriesNumber |-> n, name |-> DigitsOf(n, 2), ImageType |-> t] :
        n \in {4, 19, 20, 105},
        t \in { <<<<"DERIVED">>, <<"PRIMARY">>, <<"DIXON">>, IN_PHASE>>,
                <<<<"DERIVED">>, <<"PRIMARY">>, <<"DIXON">>, FAT>>,
                <<<<"DERIVED">>, <<"PRIMARY">>, <<"DIXON">>, <<"ADC">>>>,
                <<<<"ORIGINAL">>, <<"PRIMARY">>, <<"M">>>> } }

BordeauxFolders ==
    { [SeriesDescription |-> d] :
        d \in DOMAIN bordeaux_new_series_desc \cup {"T2w_abdomen_haste_tra_mbh"} }

SheffieldFolders ==
    { [SeriesDescription |-> d, Manufacturer |-> "GE MEDICAL SYSTEMS", EchoTime |-> 1] :
        d \in DOMAIN sheffield_new_series_desc \cup {"T2_abdomen_haste_tra_mbh"} }
    \cup
    { [SeriesDescription |-> d, Manufacturer |-> "Philips Healthcare", EchoTime |-> te] :
        d \in {"T1w_abdomen_dixon_cor_bh", "T1w_abdomen_post_contrast_dixon_cor_bh",
               "T2w_abdomen_haste_tra_mbh"},
        te \in {1, 2} }

BariNames ==
    { [SeriesNumber |-> n, name |-> DigitsOf(n, 4)] : n \in {401, 999, 1000, 1301} }

\* One classifier call: the ledger after it, and the history record
NoName == <<>>
Called(s, nr, base, ret) ==
    /\ Len(lhist) < MaxCalls
    /\ lsite = s
    /\ all_series' = ret.all_series
    /\ lhist' = Append(lhist, [nr |-> nr, raised |-> ret.raised,
                               base |-> IF ret.raised THEN NoName ELSE base])
    /\ UNCHANGED <<lsite, swapVars, interpVars, driverVars, workerVars, maskVars>>

LeedsClassify ==
    \E folder \in LeedsFolders :
        Called("leeds", folder.SeriesNumber,
               IF Len(folder.ImageType) < 4 THEN NoName ELSE leeds_series_name(folder),
               leeds_add_series_name(folder, all_series))

BordeauxClassify ==
    \E folder \in BordeauxFolders :
        Called("bordeaux", 0,
               IF folder.SeriesDescription \in DOMAIN bordeaux_new_series_desc
               THEN bordeaux_new_series_desc[folder.SeriesDescription] ELSE NoName,
               bordeaux_add_series_desc(folder, all_series))

ExeterClassify ==
    \E folder \in BordeauxFolders :
        Called("exeter", 0,
               IF folder.SeriesDescription \in DOMAIN exeter_new_series_desc
               THEN exeter_new_series_desc[folder.SeriesDescription] ELSE NoName,
               exeter_add_series_desc(folder, all_series))

SheffieldBase(folder, te) ==
    IF folder.Manufacturer = "Philips Healthcare" THEN philips_series_desc(folder, te)
    ELSE IF folder.SeriesDescription \in DOMAIN sheffield_new_series_desc
         THEN sheffield_new_series_desc[folder.SeriesDescription] ELSE NoName

SheffieldClassify ==
    \E folder \in SheffieldFolders :
        Called("sheffield", 0, SheffieldBase(folder, SheffieldEchoTime),
               sheffield_add_series_desc(folder, all_series))

TurkuClassify ==
    \E folder \in SheffieldFolders :
        Called("turku", 0, SheffieldBase(folder, TurkuEchoTime),
               turku_add_series_desc(folder, all_series))

BariClassify ==
    \E f \in BariNames :
        Called("bari", f.SeriesNumber, bari_series_name(f.name),
               bari_add_series_name(f.name, all_series))

TurkuPhilipsClassify ==
    \E f \in BariNames :
        Called("turku_philips", f.SeriesNumber, turku_philips_series_name(f.name),
               turku_philips_add_series_name(f.name, all_series))

SwapIdle == record = <<>> /\ sw_call = <<>> /\ sw_ret = <<>>
InterpIdle == ip_series = <<>> /\ ip_fn = "" /\ ip_out = <<>>
LedgerIdle == lsite = "" /\ all_series = <<>> /\ lhist = <<>>

LedgerInit ==
    /\ lsite \in ClassifierSites
    /\ all_series = <<>>       \* pat_series = []
    /\ lhist = <<>>
    /\ SwapIdle
    /\ InterpIdle
    /\ DriverIdle
    /\ MasksIdle

LedgerNext ==
    \/ LeedsClassify
    \/ BordeauxClassify
    \/ ExeterClassify
    \/ SheffieldClassify
    \/ TurkuClassify
    \/ BariClassify
    \/ TurkuPhilipsClassify

SpecLedger == LedgerInit /\ [][LedgerNext]_vars


(***************************************************************************)
(* Python values in a database address.  A series or study is named by a   *)
(* string 'desc' or by a tuple (desc, index); the two never compare equal. *)
(***************************************************************************)

PyStr(desc) == <<"str", desc>>
PyTuple(desc, idx) == <<"tuple", desc, idx>>
DescOf(v) == v[2]

\* v[0] of a tuple (every caller of swap_fat_water passes the study as a
\* tuple)
Item0(v) == v[2]

(***************************************************************************)
(* swap_fat_water                                                          *)
(***************************************************************************)

\* f'{series}_water', f'{series}_fat'
Suffixed(series, type) == series \o type

swap_fat_water_any_flag(rec, dixon, series, image_type) ==
    LET hit == { i \in 1..Len(rec) :
                    /\ SubSeq(rec[i], 2, 4) = <<dixon[2], Item0(dixon[3]), series>>
                    /\ image_type \in {fat, water} }
    IN  IF hit = {} THEN dixon
        ELSE IF image_type = fat
             THEN SubSeq(dixon, 1, 3) \o <<PyStr(Suffixed(series, water))>>
             ELSE SubSeq(dixon, 1, 3) \o <<PyStr(Suffixed(series, fat))>>

\* for row in record: the first row that matches, has its flag set and
\* meets a fat or water image returns; every other row is passed over
RECURSIVE swap_rows(_, _, _, _, _)
swap_rows(rec, i, dixon, series, image_type) ==
    IF i > Len(rec) THEN dixon
    ELSE IF /\ SubSeq(rec[i], 2, 4) = <<dixon[2], Item0(dixon[3]), series>>
            /\ rec[i][5] = "1"
            /\ image_type = fat
         THEN SubSeq(dixon, 1, 3) \o <<PyStr(Suffixed(series, water))>>
         ELSE IF /\ SubSeq(rec[i], 2, 4) = <<dixon[2], Item0(dixon[3]), series>>
                 /\ rec[i][5] = "1"
                 /\ image_type = water
              THEN SubSeq(dixon, 1, 3) \o <<PyStr(Suffixed(series, fat))>>
              ELSE swap_rows(rec, i + 1, dixon, series, image_type)

swap_fat_water(rec, dixon, series, image_type) ==
    swap_rows(rec, 1, dixon, series, image_type)

\* Rows of the table
MaxRows == 2

SwapRows ==
    { <<"Sheffield", p, st, f, flag>> :
        p \in {"7128_001", "7128_002"}, st \in {"Baseline", "Followup"},
        f \in {<<"Dixon", "1">>, <<"Dixon", "post", "contrast", "1">>},
        flag \in {"0", "1"} }

RECURSIVE SeqsUpTo(_, _)
SeqsUpTo(S, n) ==
    IF n = 0 THEN {<<>>}
    ELSE LET shorter == SeqsUpTo(S, n - 1)
         IN  shorter \cup { Append(q, x) : q \in {r \in shorter : Len(r) = n - 1}, x \in S }

ImageTypeLoop == <<out_phase, in_phase, fat, water>>
SeriesLoop == << <<"Dixon">>, <<"Dixon", "post", "contrast">> >>

\* The calls the drivers make: the address of f'{series}_{counter}_{type}'
\* of one patient and study, the family f'{series}_{counter}', the type
SwapCalls ==
    { [dixon |-> <<"Sheffield/Patients", "7128_001", PyTuple("Baseline", 0),
                   IF tup THEN PyTuple(series \o <<Str(counter)>> \o type, 0)
                          ELSE PyStr(series \o <<Str(counter)>> \o type)>>,
       series |-> series \o <<Str(counter)>>,
       image_type |-> type] :
        series \in Range(SeriesLoop), counter \in {1, 2},
        type \in Range(ImageTypeLoop), tup \in BOOLEAN }

SwapInit ==
    /\ record \in SeqsUpTo(SwapRows, MaxRows)
    /\ sw_call = <<>>
    /\ sw_ret = <<>>
    /\ LedgerIdle
    /\ InterpIdle
    /\ DriverIdle
    /\ MasksIdle

SwapCall ==
    /\ Len(record) <= MaxRows
    /\ \E c \in SwapCalls :
        /\ sw_call' = <<c>>
        /\ sw_ret' = <<swap_fat_water(record, c.dixon, c.series, c.image_type)>>
    /\ UNCHANGED <<record, ledgerVars, interpVars, driverVars, workerVars, maskVars>>

SwapNext == SwapCall

SpecSwap == SwapInit /\ [][SwapNext]_vars


(***************************************************************************)
(* Gap interpolation: exeter_interpolate_vol and the two branches of       *)
(* bari_030.  A series is given as db.pixel_data(dims='SliceLocation')     *)
(* returns it: crd, the slice locations in ascending order, and arr, the   *)
(* frames in that order.  A frame is one pixel value; the values are       *)
(* multiples of 6, so that the halves and thirds the code takes are exact. *)
(***************************************************************************)

\* the spacing jump exeter_interpolate_vol looks for (mm), and the audited
\* locations of bari_030 on the half-millimetre grid (11.6357442880728 and
\* 13.1357467355428, 1.5 mm apart)
ExeterJump == 3
Loc0OutPhase == 23
Loc0InPhase == 26

HalfMM(mm) == 2 * mm

Interpolated(raised, pixel_data) == [raised |-> raised, pixel_data |-> pixel_data]

\* np.where(cond)[0][0]: the first index that meets cond, 0 when none does
\* (the code raises IndexError)
FirstIndex(S) == IF S = {} THEN 0 ELSE CHOOSE i \in S : \A j \in S : i <= j

\* pixel_data[..i0] = arr[..i0]; pixel_data[i0+1] = arr[i0]/2 + arr[i0+1]/2;
\* pixel_data[i0+2..] = arr[i0+1..]     (i0 counts from 1 here)
InsertOneBefore(arr, i0) ==
    SubSeq(arr, 1, i0 - 1) \o <<(arr[i0] + arr[i0 + 1]) \div 2>>
                           \o SubSeq(arr, i0, Len(arr))

InsertOne(arr, i0) ==
    SubSeq(arr, 1, i0) \o <<(arr[i0] + arr[i0 + 1]) \div 2>>
                       \o SubSeq(arr, i0 + 1, Len(arr))

exeter_interpolate_vol(series) ==
    LET crd == series.crd
        i0 == FirstIndex({ i \in 1..(Len(crd) - 1) :
                             crd[i + 1] - crd[i] = HalfMM(ExeterJump) })
    IN  IF i0 = 0 THEN Interpolated(TRUE, <<>>)
        ELSE Interpolated(FALSE, InsertOne(series.arr, i0))

bari_030_in_phase(series) ==
    LET crd == series.crd
        i0 == FirstIndex({ i \in 1..Len(crd) : crd[i] = Loc0InPhase })
    IN  IF i0 = 0 \/ i0 = Len(crd)      \* [0][0] or arr[:,:,i0+1]: IndexError
        THEN Interpolated(TRUE, <<>>)
        ELSE Interpolated(FALSE, InsertOne(series.arr, i0))

\* Slices of a stack
MaxSlices == 5

\* A stack of n slices, regularly spaced by d from p0, of which m slices
\* are missing after slice g (g = 0: none is missing)
Stack(n, p0, d, g, m, arr) ==
    [crd |-> [i \in 1..n |-> p0 + d * (i - 1) + (IF g > 0 /\ i > g THEN m * d ELSE 0)],
     arr |-> arr, d |-> d, g |-> g, m |-> IF g = 0 THEN 0 ELSE m]

Stacks(n) ==
    { Stack(n, p0, d, g, m, arr) :
        p0 \in {0, 20}, d \in {2, 3},       \* spacings of 1 mm and 1.5 mm
        g \in 0..(n - 1), m \in {1, 2}, arr \in [1..n -> {0, 6, 12}] }

InterpInit ==
    /\ \E n \in 2..MaxSlices : ip_series \in Stacks(n)
    /\ ip_fn = ""
    /\ ip_out = <<>>
    /\ LedgerIdle
    /\ SwapIdle
    /\ DriverIdle
    /\ MasksIdle

ExeterInterpolate ==
    /\ ip_fn = ""
    /\ ip_fn' = "exeter_interpolate_vol"
    /\ ip_out' = exeter_interpolate_vol(ip_series)
    /\ UNCHANGED <<ip_series, ledgerVars, swapVars, driverVars, workerVars, maskVars>>

BariInPhase ==
    /\ ip_fn = ""
    /\ ip_fn' = "bari_030_in_phase"
    /\ ip_out' = bari_030_in_phase(ip_series)
    /\ UNCHANGED <<ip_series, ledgerVars, swapVars, driverVars, workerVars, maskVars>>

InterpNext ==
    \/ ExeterInterpolate
    \/ BariInPhase

SpecInterp == InterpInit /\ [][InterpNext]_vars



(***************************************************************************)
(* The site drivers.  Folder names and patient ids are character           *)
(* sequences, so that the slicing of the *_ibeat_patient_id functions is   *)
(* computed as the code computes it.                                       *)
(***************************************************************************)

\* s[a:b], s[a:], s[-a:-b], s[-a:] of Python
Slice(s, a, b) == SubSeq(s, a + 1, IF b < Len(s) THEN b ELSE Len(s))
SliceFrom(s, a) == SubSeq(s, a + 1, Len(s))
SliceBack(s, a, b) == SubSeq(s, (IF a < Len(s) THEN Len(s) - a ELSE 0) + 1, Len(s) - b)

\* s.replace('-', '_')
ReplaceDash(s) == [i \in 1..Len(s) |-> IF s[i] = "-" THEN "_" ELSE s[i]]

\* sub in s
Contains(s, sub) ==
    \E i \in 0..(Len(s) - Len(sub)) : SubSeq(s, i + 1, i + Len(sub)) = sub

EXCLUDE == { <<"7", "1", "2", "8", "_", "0", "4", "8">>, <<"7", "1", "2", "8", "_", "0", "6", "8">> }

exeter_ibeat_patient_id(folder) ==
    IF folder = <<"3", "1", "2", "8", "-", "5", "4", "2">> THEN <<"3", "1", "2", "8", "_", "5", "4", "2">>
    ELSE ReplaceDash(Slice(folder, 4, 12))

bordeaux_ibeat_patient_id(folder) == ReplaceDash(Slice(folder, 4, 12))

leeds_ibeat_patient_id(folder) ==
    IF Slice(folder, 0, 3) = <<"i", "B", "E">>
    THEN ReplaceDash(SliceFrom(folder, 4))
    ELSE SliceBack(folder, 7, 3) \o <<"_">> \o SliceBack(folder, 3, 0)

bari_ibeat_patient_id(folder) ==
    IF Slice(folder, 0, 3) = <<"i", "B", "E">>
    THEN ReplaceDash(SliceFrom(folder, 4))
    ELSE Slice(folder, 0, 4) \o <<"_">> \o SliceFrom(folder, 4)

sheffield_ibeat_patient_id(folder) ==
    LET id0 == SliceFrom(folder, 3)
        id == Slice(id0, 0, 4) \o <<"_">> \o SliceFrom(id0, 4)
    IN  IF id = <<"2", "1", "7", "8", "_", "1", "5", "7">> THEN <<"7", "1", "2", "8", "_", "1", "5", "7">> ELSE id

IdAndTimePoint(id, time_point) == [id |-> id, time_point |-> time_point]

turku_ge_ibeat_patient_id(folder) ==
    LET id == ReplaceDash(SliceFrom(folder, 4))
    IN  IF Contains(id, <<"_", "f", "o", "l", "l", "o", "w", "u", "p">>)
        THEN IdAndTimePoint(Slice(id, 0, 8), "Followup")
        ELSE IdAndTimePoint(Slice(id, 0, 8), "Baseline")

turku_philips_ibeat_patient_id(folder) ==
    LET id == ReplaceDash(Slice(folder, 0, 8))
    IN  IF Contains(id, <<"_", "f", "o", "l", "l", "o", "w", "u", "p">>)
        THEN IdAndTimePoint(Slice(id, 0, 8), "Followup")
        ELSE IdAndTimePoint(Slice(id, 0, 8), "Baseline")

Sites ==
    {"leeds", "bari", "sheffield", "turku_ge", "turku_philips",
     "bordeaux_patients", "exeter_patients"}

\* os.path.join(datapath, <site>, "Patients")
sitedatapath ==
    [leeds |-> "Leeds/Patients", bari |-> "Bari/Patients",
     sheffield |-> "Sheffield/Patients", turku_ge |-> "Turku/Patients",
     turku_philips |-> "Turku_Philips/Patients",
     bordeaux_patients |-> "Bordeaux/Patients",
     exeter_patients |-> "Exeter/Patients"]

\* The patient folders of the download directory of each site, in the
\* order os.scandir lists them
patients ==
    [leeds |-> << <<"i", "B", "E", "-", "4", "1", "2", "8", "-", "0", "5", "4">>, <<"L", "e", "e", "d", "s", "_", "P", "a", "t", "i", "e", "n", "t", "_", "4", "1", "2", "8", "0", "0", "1">> >>,
     bari |-> << <<"i", "B", "E", "-", "1", "1", "2", "8", "-", "0", "3", "0">>, <<"1", "1", "2", "8", "0", "3", "1">> >>,
     sheffield |-> << <<"i", "B", "E", "7", "1", "2", "8", "0", "4", "8">>, <<"i", "B", "E", "7", "1", "2", "8", "1", "5", "7">>, <<"i", "B", "E", "2", "1", "7", "8", "1", "5", "7">> >>,
     turku_ge |-> << <<"i", "B", "E", "-", "5", "1", "2", "8", "-", "0", "0", "1">>, <<"i", "B", "E", "-", "5", "1", "2", "8", "-", "0", "0", "1", "_", "f", "o", "l", "l", "o", "w", "u", "p">> >>,
     turku_philips |-> << <<"5", "1", "2", "8", "-", "0", "1", "0">>, <<"5", "1", "2", "8", "-", "0", "1", "0", "_", "f", "o", "l", "l", "o", "w", "u", "p">> >>,
     bordeaux_patients |-> << <<"i", "B", "E", "-", "2", "1", "2", "8", "-", "0", "0", "1", "_", "b", "a", "s", "e", "l", "i", "n", "e">>, <<"i", "B", "E", "-", "2", "1", "2", "8", "-", "0", "0", "2", "_", "b", "a", "s", "e", "l", "i", "n", "e">> >>,
     exeter_patients |-> << <<"i", "B", "E", "-", "3", "1", "2", "8", "-", "1", "1", "1">>, <<"i", "B", "E", "-", "3", "1", "2", "8", "-", "0", "3", "9">>, <<"i", "B", "E", "-", "3", "1", "2", "8", "-", "0", "4", "4">> >>]

\* The visits the drivers with a visit argument are called with
Visits(s) ==
    IF s \in {"bordeaux_patients", "exeter_patients"}
    THEN {"Baseline", "Followup"} ELSE {"Baseline"}

pat_id_of(s, folder) ==
    CASE s = "leeds" -> leeds_ibeat_patient_id(folder)
      [] s = "bari" -> bari_ibeat_patient_id(folder)
      [] s = "sheffield" -> sheffield_ibeat_patient_id(folder)
      [] s = "turku_ge" -> turku_ge_ibeat_patient_id(folder).id
      [] s = "turku_philips" -> turku_philips_ibeat_patient_id(folder).id
      [] s = "bordeaux_patients" -> bordeaux_ibeat_patient_id(folder)
      [] s = "exeter_patients" -> exeter_ibeat_patient_id(folder)

(***************************************************************************)
(* The clean database.  store maps an address (path, patient, study        *)
(* description, series description) to the volumes written there, in the   *)
(* order written; db.series and db.studies list what is present, naming    *)
(* studies and series by tuples (description, 0).                          *)
(***************************************************************************)

Database(st, wr) == [store |-> st, writes |-> wr]

\* The place an address given to write_volume names: a description given
\* as a string and one given as a tuple name the same series
Place(addr) == <<addr[1], addr[2], DescOf(addr[3]), DescOf(addr[4])>>

\* db.write_volume(vol, addr, ref=...)
write_volume(db, v, addr) ==
    LET a == Place(addr)
        present == a \in DOMAIN db.store
    IN  Database((a :> (IF present THEN Append(db.store[a], v) ELSE <<v>>)) @@ db.store,
                 Append(db.writes, [run |-> run, place |-> a, present |-> present]))

\* db.series(study)
series_of(st, study) ==
    { <<a[1], a[2], PyTuple(a[3], 0), PyTuple(a[4], 0)>> :
        a \in { b \in DOMAIN st : /\ b[1] = study[1] /\ b[2] = study[2]
                                  /\ b[3] = DescOf(study[3]) } }

\* db.studies(path) and db.studies([path, patient])
studies_of(st, path) ==
    { <<a[1], a[2], PyTuple(a[3], 0)>> : a \in { b \in DOMAIN st : b[1] = path } }

\* the folders Patient__<id> of os.listdir(sitedatapath)
subdirs(st, path) == { a[2] : a \in { b \in DOMAIN st : b[1] = path } }

\* A series of an archive: the archive (folder and position) and the key
\* split_series gave the part ("" for the whole series)
Series(p, i, key) == <<p, i, key>>

\* logging.error(...)
Logged(lg, p, i, what) == Append(lg, [pi |-> p, si |-> i, what |-> what])

(***************************************************************************)
(* The archives of a patient folder.  An archive is described by what the  *)
(* driver finds in it: whether it can be extracted, and the series it      *)
(* holds (slice locations crd on the half-millimetre grid, frames arr,     *)
(* whether db.volume can read it).                                         *)
(***************************************************************************)

\* Archives read in one run of a driver, over all folders
MaxSeries == 2

\* Repetitions of one acquisition in a folder
MaxRepeats == 4

\* A regular stack, and the two stacks with missing slices of Bari 1128_030
\* (out-phase: two slices missing after 11.64; in-phase: one after 13.14)
Regular == [crd |-> <<0, 3, 6>>, arr |-> <<0, 6, 12>>]
GapOut == [crd |-> <<20, 23, 32>>, arr |-> <<0, 6, 12>>]
GapIn == [crd |-> <<20, 23, 26, 32>>, arr |-> <<0, 6, 12, 6>>]

\* One element of db.split_series(dixon, ...): the key and the series
Part(key, stack, ok) == [key |-> key, crd |-> stack.crd, arr |-> stack.arr, ok |-> ok]

\* An archive holding one series that split_series splits
SplitArchive(zip, post, splits, split) ==
    [zip |-> zip, post |-> post, splits |-> splits, split |-> split]

BariArchives ==
    { SplitArchive(TRUE, FALSE, TRUE, <<Part(1, GapOut, TRUE), Part(2, GapIn, TRUE)>>),
      SplitArchive(TRUE, FALSE, TRUE, <<Part(2, GapIn, TRUE), Part(1, GapOut, TRUE)>>),
      SplitArchive(TRUE, TRUE, TRUE, <<Part(1, Regular, TRUE), Part(2, Regular, TRUE)>>),
      SplitArchive(TRUE, FALSE, TRUE, <<Part(1, Regular, TRUE)>>),
      SplitArchive(TRUE, FALSE, FALSE, <<>>),
      SplitArchive(FALSE, FALSE, FALSE, <<>>),
      SplitArchive(TRUE, FALSE, TRUE, <<Part(1, GapOut, FALSE), Part(2, GapIn, TRUE)>>),
      SplitArchive(TRUE, FALSE, TRUE, <<Part(1, Regular, TRUE), Part(2, GapIn, TRUE)>>),
      SplitArchive(TRUE, FALSE, TRUE, <<Part(1, GapOut, TRUE), Part(2, Regular, TRUE)>>),
      \* a complete series: slices at both audited locations, none missing
      SplitArchive(TRUE, FALSE, TRUE, <<Part(1, Stack(4, 20, 3, 0, 0, <<0, 6, 12, 6>>), TRUE),
                                        Part(2, Stack(4, 20, 3, 0, 0, <<6, 0, 6, 12>>), TRUE)>>) }

TurkuPhilipsArchives ==
    { SplitArchive(TRUE, FALSE, TRUE, <<Part("IP", Regular, TRUE), Part("OP", Regular, TRUE)>>),
      SplitArchive(TRUE, TRUE, TRUE, <<Part("IP", Regular, TRUE), Part("OP", Regular, TRUE)>>),
      SplitArchive(TRUE, FALSE, TRUE, <<Part("IP", Regular, TRUE), Part("W", Regular, TRUE)>>),
      SplitArchive(TRUE, FALSE, TRUE, <<Part("OP", Regular, TRUE)>>),
      SplitArchive(TRUE, FALSE, FALSE, <<>>),
      SplitArchive(FALSE, FALSE, FALSE, <<>>),
      SplitArchive(TRUE, FALSE, TRUE, <<Part("IP", Regular, FALSE), Part("OP", Regular, TRUE)>>),
      SplitArchive(TRUE, FALSE, TRUE, <<Part("OP", Regular, TRUE), Part("W", Regular, FALSE)>>),
      SplitArchive(TRUE, FALSE, TRUE, <<Part("M", Regular, TRUE), Part("OP", Regular, TRUE)>>) }

\* The number in the name of the i-th archive of a folder
\* (series_0401.zip, series_0501.zip, ... and series_1101.zip, ...)
BariArchiveNumber(k, i) == IF k.post THEN 1000 + 100 * i + 1 ELSE 300 + 100 * i + 1

(***************************************************************************)
(* Steps common to the drivers                                             *)
(***************************************************************************)

RECURSIVE Total(_)
Total(s) == IF s = <<>> THEN 0 ELSE Len(s[1]) + Total(Tail(s))

pat_id == pat_id_of(site, patients[site][pi])

\* The next archive of the folder: the one the listing gave in an earlier
\* run, or a further one of the folder
NextArchive(k) ==
    IF si < Len(src[pi])
    THEN k = src[pi][si + 1] /\ UNCHANGED src
    ELSE /\ pi \notin closed
         /\ \/ Total(src) < MaxSeries
            \/ /\ Total(src) = Len(src[pi])      \* one acquisition, repeated
               /\ Len(src[pi]) < MaxRepeats
               /\ \A i \in 1..Len(src[pi]) :
                    [x \in DOMAIN k \ {"nr"} |-> src[pi][i][x]] = [x \in DOMAIN k \ {"nr"} |-> k[x]]
         /\ src' = [src EXCEPT ![pi] = Append(@, k)]

\* sorted(all_zip_series, key=...): a pre-contrast archive never follows a
\* post-contrast one
InOrder(k) == IF si = 0 THEN TRUE ELSE IF k.post THEN TRUE ELSE ~src[pi][si].post

\* The listing of the folder is exhausted
NoArchiveLeft == si = Len(src[pi])

\* The temporary directory of the with-block the driver is in
temp_folder == <<run, pi, si>>

\* Leaving a with tempfile.TemporaryDirectory() block, by its end, by
\* continue, by return or by an exception
KeepTemporaryDirectory(live, t, how) == IF how = "continue" THEN live ELSE live \ {t}

ExitTemporaryDirectory(live, t, how) == live \ {t}

\* What the processing of one archive leaves: the database, the log,
\* whether an exception left the driver, and what happened
Outcome(db, lg, raised, what) == [db |-> db, log |-> lg, raised |-> raised, what |-> what]

NoLast == [pi |-> 0, si |-> 0, what |-> "", before |-> <<>>]

Last(what, before) == [pi |-> pi, si |-> si + 1, what |-> what, before |-> before]

\* An exception nothing catches ends the run
Ending(raised) ==
    /\ pc' = IF raised THEN "aborted" ELSE "series"
    /\ ended' = IF raised THEN Append(ended, "aborted") ELSE ended

\* for pat in patients: the loop is over
Finish ==
    /\ pc = "patients"
    /\ pi = Len(patients[site])
    /\ pc' = "done"
    /\ ended' = Append(ended, "done")
    /\ UNCHANGED <<site, visit, run, pi, si, src, closed, pat_series, tmp_series_folder,
                   wi, vol, store, writes, log, temps, made, last, record,
                   ledgerVars, sw_call, sw_ret, interpVars, workerVars, maskVars>>

\* The driver is run again on the same download and the same database
Rerun ==
    /\ pc \in {"done", "aborted"}
    /\ run = 1
    /\ run' = 2
    /\ pc' = "patients"
    /\ pi' = 0
    /\ si' = 0
    /\ pat_series' = <<>>
    /\ tmp_series_folder' = <<>>
    /\ wi' = 0
    /\ vol' = <<>>
    /\ last' = NoLast
    /\ UNCHANGED <<site, visit, ended, src, closed, store, writes, log, temps, made,
                   record, ledgerVars, sw_call, sw_ret, interpVars, workerVars, maskVars>>

\* The archives of the download with every series readable: a series that
\* db.volume could not assemble is replaced by a sound copy
Repaired(folders) ==
    [p \in DOMAIN folders |->
        [i \in DOMAIN folders[p] |->
            LET k == folders[p][i]
            IN  IF "split" \in DOMAIN k
                THEN [k EXCEPT !.split = [j \in DOMAIN k.split |-> [k.split[j] EXCEPT !.ok = TRUE]]]
                ELSE [k EXCEPT !.ok = k.zip]]]

\* Between two runs the download is repaired
Repair ==
    /\ pc \in {"done", "aborted"}
    /\ run = 1
    /\ src' = Repaired(src)
    /\ src' # src
    /\ UNCHANGED <<site, visit, run, ended, pc, pi, si, closed, pat_series, tmp_series_folder,
                   wi, vol, store, writes, log, temps, made, last, record,
                   ledgerVars, sw_call, sw_ret, interpVars, workerVars, maskVars>>

(***************************************************************************)
(* bari and bari_030                                                       *)
(***************************************************************************)

\* pixel_data[..i0] = arr[..i0]; pixel_data[i0+1] = arr[i0]/3 + 2 arr[i0+1]/3;
\* pixel_data[i0+2] = 2 arr[i0]/3 + arr[i0+1]/3; pixel_data[i0+3..] = arr[i0+1..]
InsertTwo(arr, i0) ==
    SubSeq(arr, 1, i0) \o <<(arr[i0] + 2 * arr[i0 + 1]) \div 3,
                            (2 * arr[i0] + arr[i0 + 1]) \div 3>>
                       \o SubSeq(arr, i0 + 1, Len(arr))

bari_030_out_phase(series) ==
    LET crd == series.crd
        i0 == FirstIndex({ i \in 1..Len(crd) : crd[i] = Loc0OutPhase })
    IN  IF i0 = 0 \/ i0 = Len(crd)      \* [0][0] or arr[:,:,i0+1]: IndexError
        THEN Interpolated(TRUE, <<>>)
        ELSE Interpolated(FALSE, InsertTwo(series.arr, i0))

\* Outphase is the one with the smallest TE
out_phase_first(dixon_split) == 1

out_phase_index(dixon_split) == IF dixon_split[1].key < dixon_split[2].key THEN 1 ELSE 2

in_phase_index(dixon_split) == IF dixon_split[1].key < dixon_split[2].key THEN 2 ELSE 1

\* db.volume(series)
volume(series, ref) ==
    [ref |-> ref, pixel_data |-> series.arr, affine |-> ref, orient |-> "as read"]

bari_030(db, lg, dixon_split) ==
    LET path == sitedatapath["bari"]
        series_desc == <<"Dixon", "1">>
        o == out_phase_index(dixon_split)
        i == in_phase_index(dixon_split)
        oref == Series(pi, si + 1, dixon_split[o].key)
        iref == Series(pi, si + 1, dixon_split[i].key)
        oval == bari_030_out_phase(dixon_split[o])
        ival == bari_030_in_phase(dixon_split[i])
        db1 == write_volume(db, [ref |-> oref, pixel_data |-> oval.pixel_data,
                                 affine |-> oref, orient |-> "as read"],
                            <<path, pat_id, PyStr("Baseline"),
                              PyStr(Suffixed(series_desc, out_phase))>>)
        db2 == write_volume(db1, [ref |-> iref, pixel_data |-> ival.pixel_data,
                                  affine |-> oref, orient |-> "as read"],
                            <<path, pat_id, PyStr("Baseline"),
                              PyStr(Suffixed(series_desc, in_phase))>>)
    IN  IF oval.raised THEN Outcome(db, lg, TRUE, "raised")
        ELSE IF ival.raised THEN Outcome(db1, lg, TRUE, "raised")
        ELSE Outcome(db2, lg, FALSE, "written")

BariPatient ==
    /\ site = "bari"
    /\ pc = "patients"
    /\ pi < Len(patients[site])
    /\ pi' = pi + 1
    /\ IF bari_ibeat_patient_id(patients[site][pi + 1]) \in EXCLUDE
       THEN UNCHANGED <<pc, si, pat_series>>
       ELSE pc' = "series" /\ si' = 0 /\ pat_series' = <<>>
    /\ UNCHANGED <<site, visit, run, ended, src, closed, tmp_series_folder, wi, vol,
                   store, writes, log, temps, made, last, record,
                   ledgerVars, sw_call, sw_ret, interpVars, workerVars, maskVars>>

\* One archive up to the with-block: the name, then the test for the
\* out-phase series
BariSeries ==
    /\ site = "bari"
    /\ pc = "series"
    /\ \E k \in BariArchives :
        /\ NextArchive(k)
        /\ InOrder(k)
        /\ LET r == bari_add_series_name(DigitsOf(BariArchiveNumber(k, si + 1), 4), pat_series)
               name == r.all_series[Len(r.all_series)]
               study == <<sitedatapath[site], pat_id, PyTuple("Baseline", 0)>>
               out_phase_clean == study \o <<PyTuple(Cat(name, out_phase), 0)>>
           IN  /\ pat_series' = r.all_series
               /\ IF out_phase_clean \in series_of(store, study)
                  THEN /\ si' = si + 1
                       /\ last' = Last("exists", pat_series)
                       /\ UNCHANGED <<pc, temps, made>>
                  ELSE /\ pc' = "inwith"
                       /\ temps' = temps \cup {temp_folder}
                       /\ made' = made + 1
                       /\ last' = Last("named", pat_series)
                       /\ UNCHANGED si
    /\ UNCHANGED <<site, visit, run, ended, pi, closed, tmp_series_folder, wi, vol,
                   store, writes, log, record, ledgerVars, sw_call, sw_ret, interpVars, workerVars, maskVars>>

\* The with-block of one archive
bari_series(db, lg, k, name) ==
    LET study == <<sitedatapath["bari"], pat_id, PyTuple("Baseline", 0)>>
        out_phase_clean == study \o <<PyTuple(Cat(name, out_phase), 0)>>
        in_phase_clean == study \o <<PyTuple(Cat(name, in_phase), 0)>>
        dixon_split == k.split
        o == out_phase_index(dixon_split)
        i == in_phase_index(dixon_split)
        oref == Series(pi, si + 1, dixon_split[o].key)
        iref == Series(pi, si + 1, dixon_split[i].key)
    IN  IF ~k.zip THEN Outcome(db, Logged(lg, pi, si + 1, "error extracting"), FALSE, "extracting")
        ELSE IF ~k.splits
        THEN Outcome(db, Logged(lg, pi, si + 1, "Error splitting"), FALSE, "splitting")
        ELSE IF Len(dixon_split) = 1
        THEN Outcome(db, Logged(lg, pi, si + 1, "Only one echo time found"), FALSE, "one")
        ELSE IF pat_id = <<"1", "1", "2", "8", "_", "0", "3", "0">> /\ name = Dixon_1_
        THEN bari_030(db, lg, dixon_split)
        ELSE IF ~dixon_split[o].ok \/ ~dixon_split[i].ok
        THEN Outcome(db, Logged(lg, pi, si + 1, "volume"), FALSE, "volume")
        ELSE Outcome(write_volume(write_volume(db, volume(dixon_split[o], oref), out_phase_clean),
                                  volume(dixon_split[i], iref), in_phase_clean),
                     lg, FALSE, "written")

BariBody ==
    /\ site = "bari"
    /\ pc = "inwith"
    /\ LET r == bari_series(Database(store, writes), log, src[pi][si + 1],
                            pat_series[Len(pat_series)])
       IN  /\ store' = r.db.store
           /\ writes' = r.db.writes
           /\ log' = r.log
           /\ Ending(r.raised)
           /\ last' = Last(r.what, last.before)
           /\ temps' = ExitTemporaryDirectory(temps, temp_folder,
                           IF r.raised THEN "exception"
                           ELSE IF r.what = "written" THEN "end" ELSE "continue")
    /\ si' = si + 1
    /\ UNCHANGED <<site, visit, run, pi, src, closed, pat_series, tmp_series_folder, wi, vol,
                   made, record, ledgerVars, sw_call, sw_ret, interpVars, workerVars, maskVars>>

\* for zip_series in all_zip_series: the loop is over
BariEnd ==
    /\ site = "bari"
    /\ pc = "series"
    /\ NoArchiveLeft
    /\ closed' = closed \cup {pi}
    /\ pc' = "patients"
    /\ UNCHANGED <<site, visit, run, ended, pi, si, src, pat_series, tmp_series_folder, wi, vol,
                   store, writes, log, temps, made, last, record,
                   ledgerVars, sw_call, sw_ret, interpVars, workerVars, maskVars>>

(***************************************************************************)
(* turku_philips                                                           *)
(***************************************************************************)

TurkuPhilipsPatient ==
    /\ site = "turku_philips"
    /\ pc = "patients"
    /\ pi < Len(patients[site])
    /\ pi' = pi + 1
    /\ IF turku_philips_ibeat_patient_id(patients[site][pi + 1]).id \in EXCLUDE
       THEN UNCHANGED <<pc, si, pat_series>>
       ELSE pc' = "series" /\ si' = 0 /\ pat_series' = <<>>
    /\ UNCHANGED <<site, visit, run, ended, src, closed, tmp_series_folder, wi, vol,
                   store, writes, log, temps, made, last, record,
                   ledgerVars, sw_call, sw_ret, interpVars, workerVars, maskVars>>

\* The addresses of the four image types of a series name
turku_philips_dixon_clean(name) ==
    LET study == <<sitedatapath["turku_philips"], pat_id, PyTuple("Baseline", 0)>>
    IN  [OP |-> study \o <<PyTuple(Cat(name, out_phase), 0)>>,
         IP |-> study \o <<PyTuple(Cat(name, in_phase), 0)>>,
         W |-> study \o <<PyTuple(Cat(name, water), 0)>>,
         F |-> study \o <<PyTuple(Cat(name, fat), 0)>>]

\* One archive up to the with-block: the name, then the test for the
\* out-phase series
TurkuPhilipsSeries ==
    /\ site = "turku_philips"
    /\ pc = "series"
    /\ \E k \in TurkuPhilipsArchives :
        /\ NextArchive(k)
        /\ InOrder(k)
        /\ LET r == turku_philips_add_series_name(
                        DigitsOf(BariArchiveNumber(k, si + 1), 4), pat_series)
               name == r.all_series[Len(r.all_series)]
               study == <<sitedatapath[site], pat_id, PyTuple("Baseline", 0)>>
           IN  /\ pat_series' = r.all_series
               /\ IF turku_philips_dixon_clean(name).OP \in series_of(store, study)
                  THEN /\ si' = si + 1
                       /\ last' = Last("exists", pat_series)
                       /\ UNCHANGED <<pc, temps, made>>
                  ELSE /\ pc' = "inwith"
                       /\ temps' = temps \cup {temp_folder}
                       /\ made' = made + 1
                       /\ last' = Last("named", pat_series)
                       /\ UNCHANGED si
    /\ UNCHANGED <<site, visit, run, ended, pi, closed, tmp_series_folder, wi, vol,
                   store, writes, log, record, ledgerVars, sw_call, sw_ret, interpVars, workerVars, maskVars>>

Written(db, lg, v, raised, what) ==
    [db |-> db, log |-> lg, vol |-> v, raised |-> raised, what |-> what]

\* for split_series in dixon_split: try: vol = db.volume(...) except: log;
\* db.write_volume(vol, dixon_clean[split_series[0]], ...).  v is the local
\* variable vol: <<>> while it is unbound
RECURSIVE turku_philips_write(_, _, _, _, _, _)
turku_philips_write(db, lg, v, dixon_split, j, dixon_clean) ==
    IF j > Len(dixon_split) THEN Written(db, lg, v, FALSE, "written")
    ELSE LET part == dixon_split[j]
             ref == Series(pi, si + 1, part.key)
             v1 == IF part.ok THEN <<volume(part, ref)>> ELSE v
             lg1 == IF part.ok THEN lg ELSE Logged(lg, pi, si + 1, "volume")
         IN  IF v1 = <<>>                               \* UnboundLocalError
             THEN Written(db, lg1, v1, TRUE, "raised")
             ELSE IF part.key \notin DOMAIN dixon_clean  \* KeyError
             THEN Written(db, lg1, v1, TRUE, "raised")
             ELSE turku_philips_write(write_volume(db, v1[1], dixon_clean[part.key]),
                                      lg1, v1, dixon_split, j + 1, dixon_clean)

\* The with-block of one archive
turku_philips_series(db, lg, v, k, name) ==
    IF ~k.zip THEN Written(db, Logged(lg, pi, si + 1, "error extracting"), v, FALSE, "extracting")
    ELSE IF ~k.splits
    THEN Written(db, Logged(lg, pi, si + 1, "Error splitting"), v, FALSE, "splitting")
    ELSE IF Len(k.split) = 1
    THEN Written(db, Logged(lg, pi, si + 1, "Only one image type found"), v, FALSE, "one")
    ELSE turku_philips_write(db, lg, v, k.split, 1, turku_philips_dixon_clean(name))

TurkuPhilipsBody ==
    /\ site = "turku_philips"
    /\ pc = "inwith"
    /\ LET r == turku_philips_series(Database(store, writes), log, vol, src[pi][si + 1],
                                     pat_series[Len(pat_series)])
       IN  /\ store' = r.db.store
           /\ writes' = r.db.writes
           /\ log' = r.log
           /\ vol' = r.vol
           /\ Ending(r.raised)
           /\ last' = Last(r.what, last.before)
           /\ temps' = ExitTemporaryDirectory(temps, temp_folder,
                           IF r.raised THEN "exception"
                           ELSE IF r.what = "written" THEN "end" ELSE "continue")
    /\ si' = si + 1
    /\ UNCHANGED <<site, visit, run, pi, src, closed, pat_series, tmp_series_folder, wi,
                   made, record, ledgerVars, sw_call, sw_ret, interpVars, workerVars, maskVars>>

TurkuPhilipsEnd ==
    /\ site = "turku_philips"
    /\ pc = "series"
    /\ NoArchiveLeft
    /\ closed' = closed \cup {pi}
    /\ pc' = "patients"
    /\ UNCHANGED <<site, visit, run, ended, pi, si, src, pat_series, tmp_series_folder, wi, vol,
                   store, writes, log, temps, made, last, record,
                   ledgerVars, sw_call, sw_ret, interpVars, workerVars, maskVars>>

(***************************************************************************)
(* leeds and leeds_054                                                     *)
(***************************************************************************)

\* An archive holding one series that is written as it is
WholeArchive(zip, post, folder, stack, ok) ==
    [zip |-> zip, post |-> post, folder |-> folder,
     crd |-> stack.crd, arr |-> stack.arr, ok |-> ok]

DixonImageType(type) == <<<<"DERIVED">>, <<"PRIMARY">>, <<"DIXON">>, type>>

LeedsArchives ==
    { WholeArchive(TRUE, FALSE, [ImageType |-> DixonImageType(IN_PHASE)], Regular, TRUE),
      WholeArchive(TRUE, FALSE, [ImageType |-> DixonImageType(FAT)], Regular, TRUE),
      WholeArchive(TRUE, TRUE, [ImageType |-> DixonImageType(IN_PHASE)], Regular, TRUE),
      WholeArchive(TRUE, FALSE, [ImageType |-> <<<<"ORIGINAL">>, <<"PRIMARY">>, <<"M">>>>], Regular, TRUE),
      WholeArchive(FALSE, FALSE, [ImageType |-> <<>>], Regular, FALSE),
      WholeArchive(TRUE, FALSE, [ImageType |-> DixonImageType(IN_PHASE)], Regular, FALSE),
      WholeArchive(TRUE, FALSE, [ImageType |-> DixonImageType(<<"ADC">>)], Regular, TRUE) }

\* The number in the name of the i-th archive of a folder (series_04.zip,
\* series_05.zip, ... and series_41.zip, ...)
LeedsArchiveNumber(k, i) == IF k.post THEN 40 + i ELSE 3 + i

LeedsPatient ==
    /\ site = "leeds"
    /\ pc = "patients"
    /\ pi < Len(patients[site])
    /\ pi' = pi + 1
    /\ LET id == leeds_ibeat_patient_id(patients[site][pi + 1])
       IN  IF id \in subdirs(store, sitedatapath[site])
           THEN UNCHANGED <<pc, si, pat_series, temps, made>>
           ELSE /\ pc' = IF id = <<"4", "1", "2", "8", "_", "0", "5", "4">>
                         THEN "leeds_054" ELSE "series"
                /\ si' = 0
                /\ pat_series' = IF id = <<"4", "1", "2", "8", "_", "0", "5", "4">>
                                 THEN pat_series ELSE <<>>
                /\ temps' = temps \cup {<<run, pi + 1, 0>>}
                /\ made' = made + 1
    /\ UNCHANGED <<site, visit, run, ended, src, closed, tmp_series_folder, wi, vol,
                   store, writes, log, last, record,
                   ledgerVars, sw_call, sw_ret, interpVars, workerVars, maskVars>>

\* The body of for zip_series in os.scandir(pat)
leeds_series(db, lg, k, r) ==
    LET name == r.all_series[Len(r.all_series)]
        dixon_clean == <<sitedatapath["leeds"], pat_id, PyStr("Baseline"), PyStr(name)>>
        dixon == Series(pi, si + 1, "")
    IN  IF ~k.zip THEN Outcome(db, lg, TRUE, "raised")       \* zipfile.ZipFile: not caught
        ELSE IF r.raised
        THEN Outcome(db, Logged(lg, pi, si + 1, "error renaming"), FALSE, "renaming")
        ELSE IF ~k.ok THEN Outcome(db, Logged(lg, pi, si + 1, "volume"), FALSE, "volume")
        ELSE Outcome(write_volume(db, volume(k, dixon), dixon_clean), lg, FALSE, "written")

\* os.scandir(pat) lists the archives in no particular order: the archive
\* listed i-th has the i-th number of the folder or that of its neighbour
LeedsSeries ==
    /\ site = "leeds"
    /\ pc = "series"
    /\ \E k0 \in LeedsArchives, at \in {si + 1, IF si % 2 = 0 THEN si + 2 ELSE si} :
        LET nr == LeedsArchiveNumber(k0, at)
            k == [x \in DOMAIN k0 \cup {"nr"} |-> IF x = "nr" THEN nr ELSE k0[x]]
            named == leeds_add_series_name(
                         [name |-> DigitsOf(nr, 2), ImageType |-> k.folder.ImageType],
                         pat_series)
            r == leeds_series(Database(store, writes), log, k, named)
        IN  /\ NextArchive(k)
            /\ \A j \in 1..si : src[pi][j].nr # nr
            /\ pat_series' = IF k.zip THEN named.all_series ELSE pat_series
            /\ store' = r.db.store
            /\ writes' = r.db.writes
            /\ log' = r.log
            /\ Ending(r.raised)
            /\ last' = Last(r.what, pat_series)
            /\ temps' = IF r.raised
                        THEN ExitTemporaryDirectory(temps, <<run, pi, 0>>, "exception")
                        ELSE temps
    /\ si' = si + 1
    /\ UNCHANGED <<site, visit, run, pi, closed, tmp_series_folder, wi, vol,
                   made, record, ledgerVars, sw_call, sw_ret, interpVars, workerVars, maskVars>>

LeedsEnd ==
    /\ site = "leeds"
    /\ pc = "series"
    /\ NoArchiveLeft
    /\ closed' = closed \cup {pi}
    /\ pc' = "patients"
    /\ temps' = ExitTemporaryDirectory(temps, <<run, pi, 0>>, "end")
    /\ UNCHANGED <<site, visit, run, ended, pi, si, src, pat_series, tmp_series_folder, wi, vol,
                   store, writes, log, made, last, record,
                   ledgerVars, sw_call, sw_ret, interpVars, workerVars, maskVars>>

\* The archives of iBE-4128-054: one image each, with its series number
ImageArchive(zip, SeriesNumber, ok) == [zip |-> zip, SeriesNumber |-> SeriesNumber, ok |-> ok]

Leeds054Archives ==
    { ImageArchive(TRUE, 4, TRUE), ImageArchive(TRUE, 5, TRUE), ImageArchive(TRUE, 41, TRUE),
      ImageArchive(TRUE, 9, TRUE), ImageArchive(FALSE, 0, FALSE), ImageArchive(TRUE, 4, FALSE) }

leeds_054_dixon ==
    (4 :> Dixon_1(out_phase)) @@ (5 :> Dixon_1(in_phase)) @@
    (6 :> Dixon_1(fat)) @@ (7 :> Dixon_1(water)) @@
    (41 :> Dixon_post_contrast_1(out_phase)) @@ (42 :> Dixon_post_contrast_1(in_phase)) @@
    (43 :> Dixon_post_contrast_1(fat)) @@ (44 :> Dixon_post_contrast_1(water))

\* for zip_series in os.scandir(pat): extractall(temp_database_1)
Leeds054Extract ==
    /\ site = "leeds"
    /\ pc = "leeds_054"
    /\ \E k \in Leeds054Archives :
        /\ NextArchive(k)
        /\ pc' = IF k.zip THEN pc ELSE "aborted"       \* zipfile.ZipFile: not caught
        /\ ended' = IF k.zip THEN ended ELSE Append(ended, "aborted")
        /\ temps' = IF k.zip THEN temps
                    ELSE ExitTemporaryDirectory(temps, <<run, pi, 0>>, "exception")
        /\ last' = Last(IF k.zip THEN "extracted" ELSE "raised", pat_series)
    /\ si' = si + 1
    /\ UNCHANGED <<site, visit, run, pi, closed, pat_series, tmp_series_folder, wi, vol,
                   store, writes, log, made, record, ledgerVars, sw_call, sw_ret, interpVars, workerVars, maskVars>>

\* for s in db.series(temp_database_2): one series for each series number,
\* read as a volume and written
RECURSIVE leeds_054_write(_, _, _, _)
leeds_054_write(db, lg, images, numbers) ==
    IF numbers = {} THEN Outcome(db, lg, FALSE, "written")
    ELSE LET v == CHOOSE n \in numbers : \A m \in numbers : n <= m
             members == { i \in 1..Len(images) : images[i].SeriesNumber = v }
             s == <<sitedatapath["leeds"], <<"4", "1", "2", "8", "_", "0", "5", "4">>,
                    PyTuple("Baseline", 0), PyTuple(leeds_054_dixon[v], 0)>>
             ref == Series(pi, members, "")
             dixon_vol == [ref |-> ref,
                           pixel_data |-> [i \in 1..Cardinality(members) |-> 0],
                           affine |-> ref, orient |-> "as read"]
         IN  IF \E i \in members : ~images[i].ok
             THEN leeds_054_write(db, Logged(lg, pi, v, "volume"), images, numbers \ {v})
             ELSE leeds_054_write(write_volume(db, dixon_vol, s), lg, images, numbers \ {v})

Leeds054Write ==
    /\ site = "leeds"
    /\ pc = "leeds_054"
    /\ NoArchiveLeft
    /\ closed' = closed \cup {pi}
    /\ LET images == src[pi]
           numbers == { images[i].SeriesNumber : i \in 1..Len(images) }
           raised == \E v \in numbers : v \notin DOMAIN leeds_054_dixon     \* KeyError
           r == IF raised THEN Outcome(Database(store, writes), log, TRUE, "raised")
                ELSE leeds_054_write(Database(store, writes), log, images, numbers)
       IN  /\ store' = r.db.store
           /\ writes' = r.db.writes
           /\ log' = r.log
           /\ pc' = IF raised THEN "aborted" ELSE "patients"
           /\ ended' = IF raised THEN Append(ended, "aborted") ELSE ended
           /\ temps' = ExitTemporaryDirectory(temps, <<run, pi, 0>>,
                                              IF raised THEN "exception" ELSE "end")
    /\ UNCHANGED <<site, visit, run, pi, si, src, pat_series, tmp_series_folder, wi, vol,
                   made, last, record, ledgerVars, sw_call, sw_ret, interpVars, workerVars, maskVars>>

(***************************************************************************)
(* sheffield, turku_ge, bordeaux_patients and exeter_patients: the         *)
(* archives of a patient are extracted and named first, then written in    *)
(* the order of the names                                                  *)
(***************************************************************************)

\* The header the classifiers read of the extracted series
Header(desc, manufacturer, te) ==
    [SeriesDescription |-> desc, Manufacturer |-> manufacturer, EchoTime |-> te]

SheffieldArchives ==
    { WholeArchive(TRUE, FALSE, Header("FAT: T1_abdomen_dixon_cor_bh", "GE MEDICAL SYSTEMS", 1), Regular, TRUE),
      WholeArchive(TRUE, FALSE, Header("WATER: T1_abdomen_dixon_cor_bh", "GE MEDICAL SYSTEMS", 1), Regular, TRUE),
      WholeArchive(TRUE, TRUE, Header("FAT: T1_abdomen_post_contrast_dixon_cor_bh", "GE MEDICAL SYSTEMS", 1), Regular, TRUE),
      WholeArchive(TRUE, FALSE, Header("T2_abdomen_haste_tra_mbh", "GE MEDICAL SYSTEMS", 1), Regular, TRUE),
      WholeArchive(FALSE, FALSE, Header("", "", 0), Regular, FALSE),
      WholeArchive(TRUE, FALSE, Header("FAT: T1_abdomen_dixon_cor_bh", "GE MEDICAL SYSTEMS", 1), Regular, FALSE),
      WholeArchive(TRUE, FALSE, Header("T1w_abdomen_dixon_cor_bh", "Philips Healthcare", 1), Regular, TRUE),
      WholeArchive(TRUE, FALSE, Header("T2w_abdomen_haste_tra_mbh", "Philips Healthcare", 1), Regular, TRUE) }

BordeauxArchives ==
    { WholeArchive(TRUE, FALSE, Header("T1w_abdomen_dixon_cor_bh_F", "SIEMENS", 1), Regular, TRUE),
      WholeArchive(TRUE, FALSE, Header("T1w_abdomen_dixon_cor_bh_W", "SIEMENS", 1), Regular, TRUE),
      WholeArchive(TRUE, TRUE, Header("T1w_abdomen_post_contrast_dixon_cor_bh_in", "SIEMENS", 2), GapIn, TRUE),
      WholeArchive(TRUE, TRUE, Header("T1w_abdomen_post_contrast_dixon_cor_bh_in", "SIEMENS", 2), Regular, TRUE),
      WholeArchive(TRUE, FALSE, Header("T2w_abdomen_haste_tra_mbh", "SIEMENS", 1), Regular, TRUE),
      WholeArchive(FALSE, FALSE, Header("", "", 0), Regular, FALSE),
      WholeArchive(TRUE, FALSE, Header("T1w_abdomen_dixon_cor_bh_F", "SIEMENS", 1), Regular, FALSE) }

\* The classifier each driver calls
add_series_desc(s, folder, all) ==
    CASE s = "sheffield" -> sheffield_add_series_desc(folder, all)
      [] s = "turku_ge" -> turku_add_series_desc(folder, all)
      [] s = "bordeaux_patients" -> bordeaux_add_series_desc(folder, all)
      [] s = "exeter_patients" -> exeter_add_series_desc(folder, all)

\* The rows of fat_water_swap_record.csv: none, or one row that flags the
\* first pre-contrast series of a patient of the site at baseline (a row
\* that no call of the driver matches is left out)
FlaggedRow(s) ==
    CASE s = "sheffield" -> <<"Sheffield", <<"7", "1", "2", "8", "_", "1", "5", "7">>, "Baseline", <<"Dixon", "1">>, "1">>
      [] s = "turku_ge" -> <<"Turku", <<"5", "1", "2", "8", "_", "0", "0", "1">>, "Baseline", <<"Dixon", "1">>, "1">>
      [] s = "bordeaux_patients" -> <<"Bordeaux", <<"2", "1", "2", "8", "_", "0", "0", "1">>, "Baseline", <<"Dixon", "1">>, "1">>
      [] s = "exeter_patients" -> <<"Exeter", <<"3", "1", "2", "8", "_", "0", "3", "9">>, "Baseline", <<"Dixon", "1">>, "1">>

Records(s, v) ==
    IF s \in {"sheffield", "turku_ge", "bordeaux_patients", "exeter_patients"} /\ v = "Baseline"
    THEN {<<>>, <<FlaggedRow(s)>>} ELSE {<<>>}

\* Entering the with-block of a patient
EnterPatient ==
    /\ pc' = "series"
    /\ si' = 0
    /\ pat_series' = <<>>
    /\ tmp_series_folder' = <<>>
    /\ temps' = temps \cup {<<run, pi + 1, 0>>}
    /\ made' = made + 1

SkipPatient == UNCHANGED <<pc, si, pat_series, tmp_series_folder, temps, made>>

SheffieldPatient ==
    /\ site = "sheffield"
    /\ pc = "patients"
    /\ pi < Len(patients[site])
    /\ pi' = pi + 1
    /\ LET id == sheffield_ibeat_patient_id(patients[site][pi + 1])
       IN  IF id \in EXCLUDE THEN SkipPatient
           ELSE IF id \in subdirs(store, sitedatapath[site]) THEN SkipPatient
           ELSE EnterPatient
    /\ UNCHANGED <<site, visit, run, ended, src, closed, wi, vol,
                   store, writes, log, last, record,
                   ledgerVars, sw_call, sw_ret, interpVars, workerVars, maskVars>>

TurkuGePatient ==
    /\ site = "turku_ge"
    /\ pc = "patients"
    /\ pi < Len(patients[site])
    /\ pi' = pi + 1
    /\ LET p == turku_ge_ibeat_patient_id(patients[site][pi + 1])
           dixon_clean_study == <<sitedatapath[site], p.id, PyTuple(p.time_point, 0)>>
       IN  IF p.id \in EXCLUDE THEN SkipPatient
           ELSE IF dixon_clean_study \in studies_of(store, sitedatapath[site]) THEN SkipPatient
           ELSE EnterPatient
    /\ UNCHANGED <<site, visit, run, ended, src, closed, wi, vol,
                   store, writes, log, last, record,
                   ledgerVars, sw_call, sw_ret, interpVars, workerVars, maskVars>>

BordeauxPatient ==
    /\ site = "bordeaux_patients"
    /\ pc = "patients"
    /\ pi < Len(patients[site])
    /\ pi' = pi + 1
    /\ LET id == bordeaux_ibeat_patient_id(patients[site][pi + 1])
           dixon_clean_study == <<sitedatapath[site], id, PyTuple(visit, 0)>>
       IN  IF id \in EXCLUDE THEN SkipPatient
           ELSE IF dixon_clean_study \in studies_of(store, sitedatapath[site]) THEN SkipPatient
           ELSE EnterPatient
    /\ UNCHANGED <<site, visit, run, ended, src, closed, wi, vol,
                   store, writes, log, last, record,
                   ledgerVars, sw_call, sw_ret, interpVars, workerVars, maskVars>>

split_on_xnat ==
    { <<"Baseline", <<"3", "1", "2", "8", "_", "0", "3", "9">>>>, <<"Baseline", <<"3", "1", "2", "8", "_", "1", "0", "7">>>>, <<"Followup", <<"3", "1", "2", "8", "_", "0", "1", "2">>>>,
      <<"Followup", <<"3", "1", "2", "8", "_", "0", "3", "1">>>>, <<"Followup", <<"3", "1", "2", "8", "_", "0", "5", "0">>>> }

\* exeter_patients, and the head of exeter_111 for ('Baseline', '3128_111')
ExeterPatient ==
    /\ site = "exeter_patients"
    /\ pc = "patients"
    /\ pi < Len(patients[site])
    /\ pi' = pi + 1
    /\ LET id == exeter_ibeat_patient_id(patients[site][pi + 1])
           dixon_clean_study == <<sitedatapath[site], id, PyTuple(visit, 0)>>
           exists == dixon_clean_study \in studies_of(store, sitedatapath[site])
       IN  IF id \in EXCLUDE THEN SkipPatient
           ELSE IF <<visit, id>> = <<"Baseline", <<"3", "1", "2", "8", "_", "1", "1", "1">>>>
           THEN IF exists THEN SkipPatient
                ELSE /\ pc' = "exeter_111"
                     /\ si' = 0
                     /\ temps' = temps \cup {<<run, pi + 1, 0>>}
                     /\ made' = made + 1
                     /\ UNCHANGED <<pat_series, tmp_series_folder>>
           ELSE IF <<visit, id>> \notin split_on_xnat /\ exists THEN SkipPatient
           ELSE EnterPatient
    /\ UNCHANGED <<site, visit, run, ended, src, closed, wi, vol,
                   store, writes, log, last, record,
                   ledgerVars, sw_call, sw_ret, interpVars, workerVars, maskVars>>

\* One archive of the first loop: extracted, named, kept under its name
ExtractSeries ==
    /\ site \in {"sheffield", "turku_ge", "bordeaux_patients", "exeter_patients"}
    /\ pc = "series"
    /\ \E k \in (IF site \in {"sheffield", "turku_ge"}
                THEN SheffieldArchives ELSE BordeauxArchives) :
        /\ NextArchive(k)
        /\ LET r == add_series_desc(site, k.folder, pat_series)
           IN  IF ~k.zip
               THEN /\ log' = Logged(log, pi, si + 1, "error extracting")
                    /\ last' = Last("extracting", pat_series)
                    /\ UNCHANGED <<pat_series, tmp_series_folder>>
               ELSE IF r.raised
               THEN /\ log' = Logged(log, pi, si + 1, "error renaming")
                    /\ last' = Last("renaming", pat_series)
                    /\ UNCHANGED <<pat_series, tmp_series_folder>>
               ELSE /\ pat_series' = r.all_series
                    /\ tmp_series_folder' =
                           (r.all_series[Len(r.all_series)] :> (si + 1)) @@ tmp_series_folder
                    /\ last' = Last("named", pat_series)
                    /\ UNCHANGED log
    /\ si' = si + 1
    /\ UNCHANGED <<site, visit, run, ended, pc, pi, closed, wi, vol,
                   store, writes, temps, made, record,
                   ledgerVars, sw_call, sw_ret, interpVars, workerVars, maskVars>>

EndExtract ==
    /\ site \in {"sheffield", "turku_ge", "bordeaux_patients", "exeter_patients"}
    /\ pc = "series"
    /\ NoArchiveLeft
    /\ closed' = closed \cup {pi}
    /\ pc' = "write"
    /\ wi' = 0
    /\ UNCHANGED <<site, visit, run, ended, pi, si, src, pat_series, tmp_series_folder, vol,
                   store, writes, log, temps, made, last, record,
                   ledgerVars, sw_call, sw_ret, interpVars, workerVars, maskVars>>

\* for series in [...]: for counter in [1,2,3]: for image_type in [...]
CounterLoop == <<1, 2, 3>>
WriteLoop ==
    [j \in 1..(Len(SeriesLoop) * Len(CounterLoop) * Len(ImageTypeLoop)) |->
        [series |-> SeriesLoop[((j - 1) \div (Len(CounterLoop) * Len(ImageTypeLoop))) + 1],
         counter |-> CounterLoop[(((j - 1) \div Len(ImageTypeLoop)) % Len(CounterLoop)) + 1],
         image_type |-> ImageTypeLoop[((j - 1) % Len(ImageTypeLoop)) + 1]]]

\* f'{series}_{counter}_{image_type}'
series_desc_of(w) == w.series \o <<Str(w.counter)>> \o w.image_type

\* The positions of the loop still to come whose name has an archive
ToWrite == { j \in (wi + 1)..Len(WriteLoop) :
                series_desc_of(WriteLoop[j]) \in DOMAIN tmp_series_folder }

\* The study the volumes of the patient are written to
study_of(s) ==
    <<sitedatapath[s], pat_id,
      PyTuple(CASE s = "sheffield" -> "Baseline"
                [] s = "turku_ge" -> turku_ge_ibeat_patient_id(patients[s][pi]).time_point
                [] OTHER -> visit, 0)>>

\* exeter_patients: the series read with exeter_interpolate_vol, and the
\* volumes resliced
ExeterInterpolated(w) ==
    /\ visit = "Baseline"
    /\ \/ pat_id = <<"3", "1", "2", "8", "_", "0", "4", "4">> /\ w.series = <<"Dixon", "post", "contrast">> /\ w.image_type = in_phase
       \/ pat_id = <<"3", "1", "2", "8", "_", "0", "8", "2">> /\ w.series = <<"Dixon", "post", "contrast">> /\ w.image_type = fat
       \/ pat_id = <<"3", "1", "2", "8", "_", "1", "2", "0">> /\ w.series = <<"Dixon", "post", "contrast">> /\ w.image_type = out_phase

ExeterResliced(w) ==
    /\ visit = "Baseline"
    /\ \/ pat_id = <<"3", "1", "2", "8", "_", "0", "1", "4">> /\ w.series = <<"Dixon">> /\ w.counter = 2
       \/ pat_id = <<"3", "1", "2", "8", "_", "0", "8", "6">> /\ w.series = <<"Dixon", "post", "contrast">> /\ w.counter = 1
       \/ pat_id = <<"3", "1", "2", "8", "_", "1", "0", "4">> /\ w.series = <<"Dixon">> /\ w.counter = 2
       \/ pat_id = <<"3", "1", "2", "8", "_", "1", "0", "4">> /\ w.series = <<"Dixon", "post", "contrast">> /\ w.counter = 1

\* The body of the write loop for one name that has an archive
write_series(db, lg, s, w, k, i) ==
    LET series_desc == series_desc_of(w)
        dixon == Series(pi, i, "")
        named == study_of(s) \o <<IF s = "exeter_patients" THEN PyTuple(series_desc, 0)
                                  ELSE PyStr(series_desc)>>
        dixon_clean == swap_fat_water(record, named, w.series \o <<Str(w.counter)>>,
                                      w.image_type)
        interpolated == exeter_interpolate_vol(k)
        dixon_vol == IF s = "exeter_patients" /\ ExeterInterpolated(w)
                     THEN [ref |-> dixon, pixel_data |-> interpolated.pixel_data,
                           affine |-> dixon, orient |-> "as read"]
                     ELSE volume(k, dixon)
        raised == IF s = "exeter_patients" /\ ExeterInterpolated(w)
                  THEN interpolated.raised ELSE ~k.ok
    IN  IF /\ s = "exeter_patients"
           /\ <<visit, pat_id>> \in split_on_xnat
           /\ dixon_clean \in series_of(db.store, study_of(s))
        THEN Outcome(db, lg, FALSE, "exists")
        ELSE IF raised THEN Outcome(db, Logged(lg, pi, i, "volume"), FALSE, "volume")
        ELSE IF s = "exeter_patients" /\ ExeterResliced(w)
        THEN Outcome(write_volume(db, [dixon_vol EXCEPT !.orient = "coronal"], dixon_clean),
                     lg, FALSE, "written")
        ELSE Outcome(write_volume(db, dixon_vol, dixon_clean), lg, FALSE, "written")

WriteSeries ==
    /\ site \in {"sheffield", "turku_ge", "bordeaux_patients", "exeter_patients"}
    /\ pc = "write"
    /\ ToWrite # {}
    /\ LET j == CHOOSE n \in ToWrite : \A m \in ToWrite : n <= m
           i == tmp_series_folder[series_desc_of(WriteLoop[j])]
           r == write_series(Database(store, writes), log, site, WriteLoop[j], src[pi][i], i)
       IN  /\ wi' = j
           /\ store' = r.db.store
           /\ writes' = r.db.writes
           /\ log' = r.log
           /\ last' = [pi |-> pi, si |-> i, what |-> r.what, before |-> pat_series]
    /\ UNCHANGED <<site, visit, run, ended, pc, pi, si, src, closed, pat_series,
                   tmp_series_folder, vol, temps, made, record,
                   ledgerVars, sw_call, sw_ret, interpVars, workerVars, maskVars>>

\* The write loop is over: the with-block of the patient ends
EndWrite ==
    /\ site \in {"sheffield", "turku_ge", "bordeaux_patients", "exeter_patients"}
    /\ pc = "write"
    /\ ToWrite = {}
    /\ pc' = "patients"
    /\ temps' = ExitTemporaryDirectory(temps, <<run, pi, 0>>, "end")
    /\ UNCHANGED <<site, visit, run, ended, pi, si, src, closed, pat_series,
                   tmp_series_folder, wi, vol, store, writes, log, made, last, record,
                   ledgerVars, sw_call, sw_ret, interpVars, workerVars, maskVars>>

(***************************************************************************)
(* exeter_111                                                              *)
(***************************************************************************)

Exeter111Archives ==
    { SplitArchive(TRUE, FALSE, TRUE, <<Part(1, Regular, TRUE), Part(2, Regular, TRUE)>>),
      SplitArchive(TRUE, FALSE, TRUE, <<Part(2, Regular, TRUE), Part(1, Regular, TRUE)>>),
      SplitArchive(TRUE, TRUE, TRUE, <<Part(1, Regular, TRUE), Part(2, Regular, TRUE)>>),
      SplitArchive(TRUE, TRUE, TRUE, <<Part(1, Regular, TRUE)>>),
      SplitArchive(TRUE, TRUE, FALSE, <<>>),
      SplitArchive(FALSE, TRUE, FALSE, <<>>),
      SplitArchive(TRUE, TRUE, TRUE, <<Part(1, Regular, FALSE), Part(2, Regular, TRUE)>>) }

\* The number in the name of the i-th archive (series_04.zip, ... and
\* series_41.zip, ...)
ExeterArchiveNumber(k, i) == IF k.post THEN 40 + i ELSE 3 + i

\* The body of for zip_series in all_zip_series
exeter_111_series(db, lg, k, zip_name) ==
    LET dixon_split == k.split
        o == out_phase_index(dixon_split)
        i == in_phase_index(dixon_split)
        oref == Series(pi, si + 1, dixon_split[o].key)
        iref == Series(pi, si + 1, dixon_split[i].key)
        sequence == IF zip_name = <<0, 4>> THEN Dixon_1_ ELSE Dixon_post_contrast_1_
        study == <<sitedatapath["exeter_patients"], <<"3", "1", "2", "8", "_", "1", "1", "1">>, PyTuple("Baseline", 0)>>
        out_phase_clean == study \o <<PyTuple(Cat(sequence, out_phase), 0)>>
        in_phase_clean == study \o <<PyTuple(Cat(sequence, in_phase), 0)>>
    IN  IF ~k.zip THEN Outcome(db, Logged(lg, pi, si + 1, "error extracting"), FALSE, "extracting")
        ELSE IF ~k.splits THEN Outcome(db, lg, TRUE, "raised")    \* split_series: not caught
        ELSE IF Len(dixon_split) = 1 THEN Outcome(db, lg, TRUE, "raised")  \* dixon_split[1]
        ELSE IF ~dixon_split[o].ok \/ ~dixon_split[i].ok
        THEN Outcome(db, Logged(lg, pi, si + 1, "volume"), FALSE, "volume")
        ELSE Outcome(write_volume(write_volume(db, volume(dixon_split[o], oref), out_phase_clean),
                                  volume(dixon_split[i], iref), in_phase_clean),
                     lg, FALSE, "written")

Exeter111Series ==
    /\ site = "exeter_patients"
    /\ pc = "exeter_111"
    /\ \E k \in Exeter111Archives :
        /\ NextArchive(k)
        /\ InOrder(k)
        /\ LET r == exeter_111_series(Database(store, writes), log, k,
                                      DigitsOf(ExeterArchiveNumber(k, si + 1), 2))
           IN  /\ store' = r.db.store
               /\ writes' = r.db.writes
               /\ log' = r.log
               /\ pc' = IF r.raised THEN "aborted" ELSE pc
               /\ ended' = IF r.raised THEN Append(ended, "aborted") ELSE ended
               /\ last' = Last(r.what, pat_series)
               /\ temps' = IF r.raised
                           THEN ExitTemporaryDirectory(temps, <<run, pi, 0>>, "exception")
                           ELSE temps
    /\ si' = si + 1
    /\ UNCHANGED <<site, visit, run, pi, closed, pat_series, tmp_series_folder, wi, vol,
                   made, record, ledgerVars, sw_call, sw_ret, interpVars, workerVars, maskVars>>

Exeter111End ==
    /\ site = "exeter_patients"
    /\ pc = "exeter_111"
    /\ NoArchiveLeft
    /\ closed' = closed \cup {pi}
    /\ pc' = "patients"
    /\ temps' = ExitTemporaryDirectory(temps, <<run, pi, 0>>, "end")
    /\ UNCHANGED <<site, visit, run, ended, pi, si, src, pat_series, tmp_series_folder, wi, vol,
                   store, writes, log, made, last, record,
                   ledgerVars, sw_call, sw_ret, interpVars, workerVars, maskVars>>

(***************************************************************************)
(* A driver run, and a second run on the same download                     *)
(***************************************************************************)

\* The state in which a driver is called
DriverStart ==
    /\ visit \in Visits(site)
    /\ record \in Records(site, visit)
    /\ run = 1
    /\ ended = <<>>
    /\ pc = "patients"
    /\ pi = 0
    /\ si = 0
    /\ src = [p \in 1..Len(patients[site]) |-> <<>>]
    /\ closed = {}
    /\ pat_series = <<>>
    /\ tmp_series_folder = <<>>
    /\ wi = 0
    /\ vol = <<>>
    /\ store = <<>>
    /\ writes = <<>>
    /\ log = <<>>
    /\ temps = {}
    /\ made = 0
    /\ last = NoLast
    /\ LedgerIdle
    /\ sw_call = <<>>
    /\ sw_ret = <<>>
    /\ InterpIdle

DriverInit ==
    /\ site \in Sites
    /\ DriverStart
    /\ WorkersIdle
    /\ MasksIdle

DriverNext ==
    \/ LeedsPatient
    \/ LeedsSeries
    \/ LeedsEnd
    \/ Leeds054Extract
    \/ Leeds054Write
    \/ BariPatient
    \/ BariSeries
    \/ BariBody
    \/ BariEnd
    \/ TurkuPhilipsPatient
    \/ TurkuPhilipsSeries
    \/ TurkuPhilipsBody
    \/ TurkuPhilipsEnd
    \/ SheffieldPatient
    \/ TurkuGePatient
    \/ BordeauxPatient
    \/ ExeterPatient
    \/ ExtractSeries
    \/ EndExtract
    \/ WriteSeries
    \/ EndWrite
    \/ Exeter111Series
    \/ Exeter111End
    \/ Finish
    \/ Rerun

SpecDriver == DriverInit /\ [][DriverNext]_vars

\* The drivers, run a second time on the download as it is or repaired
RepairNext ==
    \/ DriverNext
    \/ Repair

SpecRepair == DriverInit /\ [][RepairNext]_vars


(***************************************************************************)
(* Reading the slices of a series.  A series is stored as files, one for   *)
(* each slice, in some order; db.pixel_data(series, dims=...) and          *)
(* db.volume(series) of dbdicom return the frames ordered by the given     *)
(* attribute, resp. by position.                                           *)
(***************************************************************************)

\* The files of a stack, stored in the order p (a permutation of 1..n)
Files(stack, p) ==
    [i \in 1..Len(stack.crd) |->
        [SliceLocation |-> stack.crd[p[i]], frame |-> stack.arr[p[i]], InstanceNumber |-> i]]

StoredOrders(n) == { p \in [1..n -> 1..n] : \A i, j \in 1..n : i # j => p[i] # p[j] }

\* dbdicom: the frames of a series along dims, ascending, with the
\* coordinates and the attribute values of the first frame
db_pixel_data(files, dims) ==
    LET n == Len(files)
        at(r) == CHOOSE i \in 1..n :
                    Cardinality({ j \in 1..n : files[j][dims] < files[i][dims] }) = r - 1
    IN  [crd |-> [r \in 1..n |-> files[at(r)].SliceLocation],
         arr |-> [r \in 1..n |-> files[at(r)].frame],
         val |-> files[at(1)].SliceLocation]

\* db.pixel_data(series, dims='SliceLocation', coords=True, attr=aff)
pixel_data_by_instance(files) == db_pixel_data(files, "InstanceNumber")

pixel_data_by_location(files) == db_pixel_data(files, "SliceLocation")

\* vreg.volume(pixel_data, affine): affine built from the values of the
\* first frame
Assembled(r, series) ==
    [raised |-> r.raised, pixel_data |-> r.pixel_data,
     affine |-> IF r.raised THEN 0 ELSE series.val]

AssembleStacks == {Regular, GapOut, GapIn}

AssembleInit ==
    /\ \E stack \in AssembleStacks :
        ip_series \in { Files(stack, p) : p \in StoredOrders(Len(stack.crd)) }
    /\ ip_fn = ""
    /\ ip_out = <<>>
    /\ LedgerIdle
    /\ SwapIdle
    /\ DriverIdle
    /\ MasksIdle

\* The series is read and assembled: db.volume(series), or
\* db.pixel_data(...) followed by the repair of the gap
assemble(fn, files) ==
    CASE fn = "volume" ->
            LET series == db_pixel_data(files, "SliceLocation")
            IN  Assembled(Interpolated(FALSE, series.arr), series)
      [] fn = "exeter_interpolate_vol" ->
            LET series == pixel_data_by_location(files)
            IN  Assembled(exeter_interpolate_vol(series), series)
      [] fn = "bari_030_out_phase" ->
            LET series == pixel_data_by_location(files)
            IN  Assembled(bari_030_out_phase(series), series)
      [] fn = "bari_030_in_phase" ->
            LET series == pixel_data_by_location(files)
            IN  Assembled(bari_030_in_phase(series), series)

Assemble ==
    /\ ip_fn = ""
    /\ \E fn \in {"volume", "exeter_interpolate_vol", "bari_030_out_phase", "bari_030_in_phase"} :
        /\ ip_fn' = fn
        /\ ip_out' = assemble(fn, ip_series)
    /\ UNCHANGED <<ip_series, ledgerVars, swapVars, driverVars, workerVars, maskVars>>

AssembleNext == Assemble

SpecAssemble == AssembleInit /\ [][AssembleNext]_vars

(***************************************************************************)
(* Two processes run the same driver at the same time on the same download *)
(* and the same database.  One of them runs; the other waits with its      *)
(* local variables until the scheduler lets it run.                        *)
(***************************************************************************)

\* Changes of the running process in one execution
MaxSwitches == 2

\* The local variables of a process
Locals(c, p, s, names, folders, w, v, l) ==
    [pc |-> c, pi |-> p, si |-> s, pat_series |-> names, tmp_series_folder |-> folders,
     wi |-> w, vol |-> v, last |-> l]

WorkersInit ==
    /\ site \in {"leeds", "bari"}
    /\ DriverStart
    /\ waiting = Locals("patients", 0, 0, <<>>, <<>>, 0, <<>>, NoLast)
    /\ switches = 0
    /\ MasksIdle

\* The scheduler stops the running process and lets the other run
Switch ==
    /\ switches < MaxSwitches
    /\ switches' = switches + 1
    /\ waiting' = Locals(pc, pi, si, pat_series, tmp_series_folder, wi, vol, last)
    /\ pc' = waiting.pc
    /\ pi' = waiting.pi
    /\ si' = waiting.si
    /\ pat_series' = waiting.pat_series
    /\ tmp_series_folder' = waiting.tmp_series_folder
    /\ wi' = waiting.wi
    /\ vol' = waiting.vol
    /\ last' = waiting.last
    /\ UNCHANGED <<site, visit, run, ended, src, closed, store, writes, log, temps, made,
                   record, ledgerVars, sw_call, sw_ret, interpVars, maskVars>>

WorkersNext ==
    \/ LeedsPatient
    \/ LeedsSeries
    \/ LeedsEnd
    \/ Leeds054Extract
    \/ Leeds054Write
    \/ BariPatient
    \/ BariSeries
    \/ BariBody
    \/ BariEnd
    \/ Finish
    \/ Switch

SpecWorkers == WorkersInit /\ [][WorkersNext]_vars

(***************************************************************************)
(* Kidney masks: largest_cluster_label (src/src/utils/radiomics.py) and    *)
(* the mask editing steps (src/src/kidneyvol_3_edit.py).  An image is a    *)
(* function on the voxels of a grid of two rows.                           *)
(***************************************************************************)

\* Columns of the grid
MaxCols == 3

Voxels == (1..2) \X (1..MaxCols)

\* scipy.ndimage.label with its default structure: two voxels are
\* neighbours when they share a face
Adjacent(u, v) ==
    \/ u[1] = v[1] /\ (u[2] = v[2] + 1 \/ v[2] = u[2] + 1)
    \/ u[2] = v[2] /\ (u[1] = v[1] + 1 \/ v[1] = u[1] + 1)

\* The feature of the voxels S: what is reached from S through neighbours
\* inside the mask
RECURSIVE Feature(_, _)
Feature(S, mask) ==
    LET next == S \cup { v \in mask : \E u \in S : Adjacent(u, v) }
    IN  IF next = S THEN S ELSE Feature(next, mask)

\* label_img, cnt = ndi.label(array): the features of the mask, numbered in
\* the order in which a scan of the array (last index fastest) meets them
RECURSIVE ndi_label(_)
ndi_label(mask) ==
    IF mask = {} THEN <<>>
    ELSE LET first == CHOOSE v \in mask :
                        \A u \in mask : v[1] < u[1] \/ (v[1] = u[1] /\ v[2] <= u[2])
             feature == Feature({first}, mask)
         IN  <<feature>> \o ndi_label(mask \ feature)

\* max_label = labels[0]
first_cluster(mask) ==
    LET label_img == ndi_label(mask)
    IN  IF label_img = <<>> THEN {} ELSE label_img[1]

\* The voxels of the largest feature of a mask: the first of the largest in
\* label order (size.index(np.amax(size))).  A mask without a voxel raises
\* ValueError in np.amax; largest_cluster_label never passes one
largest_cluster(mask) ==
    LET label_img == ndi_label(mask)
        labels == 1..Len(label_img)
        size == [l \in labels |-> Cardinality(label_img[l])]
        max_label == CHOOSE l \in labels :
                        /\ \A k \in labels : size[k] <= size[l]
                        /\ \A k \in labels : size[k] = size[l] => l <= k
    IN  IF label_img = <<>> THEN {} ELSE label_img[max_label]

\* output_array is np.int16: a value is stored modulo 2^16
largest_cluster_label(array) ==
    [v \in DOMAIN array |->
        IF array[v] # 0 /\ v \in largest_cluster({ u \in DOMAIN array : array[u] = array[v] })
        THEN ((array[v] + 32768) % 65536) - 32768
        ELSE 0]

\* The label images handed to largest_cluster_label: background and the
\* two kidneys, and their sum where the two masks overlap
LabelImages == [Voxels -> {0, 1, 2, 3}]

ClusterInit ==
    /\ mask_in \in LabelImages
    /\ mask_fn = ""
    /\ mask_out = <<>>
    /\ LedgerIdle
    /\ SwapIdle
    /\ InterpIdle
    /\ DriverIdle

\* largest_cluster_label is applied to the image, and once more to its own
\* result
LargestClusterLabel ==
    /\ mask_fn \in {"", "largest_cluster_label"}
    /\ Len(mask_out) < 2
    /\ mask_fn' = "largest_cluster_label"
    /\ mask_out' = Append(mask_out, largest_cluster_label(
                        IF mask_out = <<>> THEN mask_in ELSE mask_out[Len(mask_out)]))
    /\ UNCHANGED <<mask_in, ledgerVars, swapVars, interpVars, driverVars, workerVars>>

ClusterNext == LargestClusterLabel

SpecCluster == ClusterInit /\ [][ClusterNext]_vars

\* A mask of the manual masks folder (RK_ed, LK_ed), resliced to the grid of
\* the Dixon reference: a binary image saved with a rescale slope, so that
\* its voxels hold 0 or 255
EditedMasks == [Voxels -> {0, 255}]

\* The series of one name in the folder: none or one
SeriesOf(images) == {<<>>} \cup { <<i>> : i \in images }

\* v0, v1 = np.min(values), np.max(values); if v1>v0: values =
\* (values-v0)/(v1-v0); values[values<0.5]=0; values[values>=0.5]=label.
\* The comparison with 0.5 is made on the doubled numerators
rescaled_label(values, label) ==
    LET all == { values[u] : u \in DOMAIN values }
        v0 == CHOOSE x \in all : \A y \in all : x <= y
        v1 == CHOOSE x \in all : \A y \in all : y <= x
    IN  [v \in DOMAIN values |->
            IF v1 > v0
            THEN IF 2 * (values[v] - v0) >= v1 - v0 THEN label ELSE 0
            ELSE IF 2 * values[v] >= 1 THEN label ELSE 0]

\* The label images convert_manual_masks writes for one folder: none when
\* the folder has neither mask (continue), else the largest clusters of the
\* right kidney mask as 2 plus the left kidney mask as 1
convert_manual_masks(rk, lk) ==
    IF rk = <<>>
    THEN IF lk = <<>> THEN <<>>
         ELSE << largest_cluster_label(rescaled_label(lk[1], 1)) >>
    ELSE LET values == rescaled_label(rk[1], 2)
             values_lk == rescaled_label(lk[1], 1)
         IN  IF lk = <<>> THEN << largest_cluster_label(values) >>
             ELSE << largest_cluster_label([v \in Voxels |-> values[v] + values_lk[v]]) >>

ConvertInit ==
    /\ mask_in \in [RK_ed : SeriesOf(EditedMasks), LK_ed : SeriesOf(EditedMasks)]
    /\ mask_fn = ""
    /\ mask_out = <<>>
    /\ LedgerIdle
    /\ SwapIdle
    /\ InterpIdle
    /\ DriverIdle

\* convert_manual_masks on one folder of the manual masks
ConvertManualMasks ==
    /\ mask_fn = ""
    /\ mask_fn' = "convert_manual_masks"
    /\ mask_out' = convert_manual_masks(mask_in.RK_ed, mask_in.LK_ed)
    /\ UNCHANGED <<mask_in, ledgerVars, swapVars, interpVars, driverVars, workerVars>>

ConvertNext == ConvertManualMasks

SpecConvert == ConvertInit /\ [][ConvertNext]_vars

\* The automatic masks of the mask store: background and the two kidneys
AutoMasks == [Voxels -> {0, 1, 2}]

\* The out-phase images shown with the mask: one intensity per row
OutPhaseImages == { [v \in Voxels |-> g[v[1]]] : g \in [1..2 -> {0, 1}] }

\* What edit_mask_with_napari returns when the window is closed
\* (mask_layer.data): the mask as it was given, or with one voxel repainted
Edited(auto_mask) ==
    { [auto_mask EXCEPT ![v] = l] : v \in Voxels, l \in {0, 1, 2} }

\* The series edit_auto_masks writes for one automatic mask: vol[0] is
\* edited_mask.astype(np.int16), written if not np.array_equal(op.values,
\* vol[0])
edit_auto_masks(op, edited_mask) ==
    LET vol0 == [v \in Voxels |-> ((edited_mask[v] + 32768) % 65536) - 32768]
    IN  IF op # vol0 THEN <<vol0>> ELSE <<>>

EditInit ==
    /\ mask_in \in [op : OutPhaseImages, auto_mask : AutoMasks]
    /\ mask_fn = ""
    /\ mask_out = <<>>
    /\ LedgerIdle
    /\ SwapIdle
    /\ InterpIdle
    /\ DriverIdle

\* edit_auto_masks on a site with one automatic mask; mask_out is the series
\* kidney_masks of the edited masks store.  The editor returns a mask or
\* raises (logged, nothing written)
EditAutoMasks ==
    /\ mask_fn \in {"", "edit_auto_masks"}
    /\ mask_fn' = "edit_auto_masks"
    /\ IF mask_out # <<>>
       THEN \* if edited_mask_series in db.series(edited_mask_study): continue
            UNCHANGED mask_out
       ELSE \/ UNCHANGED mask_out
            \/ \E edited_mask \in Edited(mask_in.auto_mask) :
                    mask_out' = edit_auto_masks(mask_in.op, edited_mask)
    /\ UNCHANGED <<mask_in, ledgerVars, swapVars, interpVars, driverVars, workerVars>>

EditNext == EditAutoMasks

SpecEdit == EditInit /\ [][EditNext]_vars
(***************************************************************************)
(* Properties of the classifiers and the ledger (SpecLedger)               *)
(***************************************************************************)

\* The calls that appended a name, in call order
Appended == SelectSeq(lhist, LAMBDA h : ~h.raised)

\* Position of the repetition index in a name
IndexAt(name) == IF name[2] = "post" THEN 4 ELSE 2

\* How many of the first i appended names have the base name of the i-th
Repetition(i) == Cardinality({ j \in 1..i : Appended[j].base = Appended[i].base })

\* C1: when one base channel name is classified N times on one ledger, the
\* N names appended are pairwise distinct and carry the repetition indices
\* 1..N in call order: the i-th name of the ledger is its base name with
\* the index replaced by the number of classifications of that base so far.
C1_RepetitionsNumbered ==
    /\ Len(all_series) = Len(Appended)
    /\ \A i \in 1..Len(all_series) :
        /\ all_series[i][IndexAt(all_series[i])] = Str(Repetition(i))
        /\ [all_series[i] EXCEPT ![IndexAt(all_series[i])] = "1"] = Appended[i].base
        /\ \A j \in 1..Len(all_series) : i # j => all_series[i] # all_series[j]

C1_Witness ==
    \E i \in 1..Len(all_series) : Repetition(i) >= 3 /\ Len(all_series) = Len(Appended)

HasPrefix(name, prefix) ==
    /\ Len(name) >= Len(prefix)
    /\ SubSeq(name, 1, Len(prefix) - 1) = SubSeq(prefix, 1, Len(prefix) - 1)

PositionThreshold(s) ==
    CASE s = "leeds" -> LeedsThreshold
      [] s = "bari" -> BariThreshold
      [] s = "turku_philips" -> TurkuPhilipsThreshold

\* C6: at a site using the position heuristic with threshold T, a series
\* whose series number is below T gets a base name with the prefix
\* 'Dixon_1_' and a series whose number is T or more one with the prefix
\* 'Dixon_post_contrast_1_'.
C6_PositionHeuristic ==
    lsite \in {"leeds", "bari", "turku_philips"} =>
        \A i \in 1..Len(lhist) :
            ~lhist[i].raised =>
                IF lhist[i].nr < PositionThreshold(lsite)
                THEN HasPrefix(lhist[i].base, Dixon_1_)
                ELSE HasPrefix(lhist[i].base, Dixon_post_contrast_1_)

(***************************************************************************)
(* Properties of swap_fat_water (SpecSwap)                                 *)
(***************************************************************************)

\* The table holds a flagged record for the key of call c
Flagged(c) ==
    \E i \in 1..Len(record) :
        /\ record[i][2] = c.dixon[2]
        /\ record[i][3] = c.dixon[3][2]
        /\ record[i][4] = c.series
        /\ record[i][5] = "1"

\* C5: with a flagged record for (patient, study, family with repetition)
\* a fat series gets the address ending in '<family>_water' and a water
\* series the one ending in '<family>_fat'; for every other key or
\* repetition, without a set flag, and for in_phase and out_phase the
\* address is returned as it was given.
C5_SwapFatWater ==
    \A k \in 1..Len(sw_call) :
        LET c == sw_call[k]
            ret == sw_ret[k]
        IN  IF Flagged(c) /\ c.image_type \in {fat, water}
            THEN /\ SubSeq(ret, 1, 3) = SubSeq(c.dixon, 1, 3)
                 /\ DescOf(ret[4]) =
                        c.series \o (IF c.image_type = fat THEN water ELSE fat)
            ELSE ret = c.dixon

C5_Witness ==
    /\ Len(sw_call) = 1
    /\ Flagged(sw_call[1])
    /\ sw_call[1].image_type = fat
    /\ DescOf(sw_ret[1][4]) = <<"Dixon", "1", "water">>
    /\ \E i \in 1..Len(record) : record[i][5] = "0"

(***************************************************************************)
(* Properties of the gap interpolation (SpecInterp)                        *)
(***************************************************************************)

RemoveAt(q, k) == SubSeq(q, 1, k - 1) \o SubSeq(q, k + 1, Len(q))

\* pixel_data is arr with one frame more, directly after frame k: the
\* average of frames k and k+1 of arr
OneInsertedAfter(arr, k, pixel_data) ==
    /\ Len(pixel_data) = Len(arr) + 1
    /\ 2 * pixel_data[k + 1] = arr[k] + arr[k + 1]
    /\ RemoveAt(pixel_data, k + 1) = arr

\* C3 as stated: for any expected spacing, a stack of n slices with one
\* missing slice after the boundary slice comes back with n+1 slices, the
\* new one directly after the boundary and the average of its neighbours.
C3_AnySpacing ==
    (ip_fn # "" /\ ip_series.g > 0 /\ ip_series.m = 1) =>
        /\ ~ip_out.raised
        /\ OneInsertedAfter(ip_series.arr, ip_series.g, ip_out.pixel_data)

\* The slice the routine takes for the last one before the gap: the first
\* one followed by a jump of 3 mm (Exeter), the one at the audited
\* location (Bari 1128_030, in-phase); 0 when there is none
BoundarySlice ==
    LET crd == ip_series.crd
    IN  IF ip_fn = "exeter_interpolate_vol"
        THEN FirstIndex({ i \in 1..(Len(crd) - 1) : crd[i + 1] = crd[i] + 6 })
        ELSE FirstIndex({ i \in 1..(Len(crd) - 1) : crd[i] = Loc0InPhase })

\* C3 (amended): the repair returns n+1 slices, the new one directly after
\* the boundary slice and equal to the average of the two slices around it,
\* every input slice unchanged and in order, when the boundary is the first
\* spacing jump of exactly 3 mm (exeter_interpolate_vol) or the slice at the
\* audited location that is not the last (bari_030, in-phase); without
\* such a boundary the routine raises.
C3_OneSliceRepair ==
    ip_fn # "" =>
        IF BoundarySlice = 0 THEN ip_out.raised
        ELSE /\ ~ip_out.raised
             /\ OneInsertedAfter(ip_series.arr, BoundarySlice, ip_out.pixel_data)

C3_Witness ==
    /\ ip_fn = "exeter_interpolate_vol"
    /\ ip_series.g = 3 /\ ip_series.m = 1 /\ ip_series.d = 3
    /\ ip_series.crd = <<0, 3, 6, 12, 15>>
    /\ ip_series.arr = <<0, 6, 0, 12, 6>>
    /\ ip_out.pixel_data = <<0, 6, 0, 6, 12, 6>>



\* C27: the address swap_fat_water returns has the site, patient and study
\* of its input and a channel of the same form (a name stays a name, a
\* name paired with an index stays a pair); an address given with a pair is
\* therefore returned as the store lists the series once it is written
\* there.
C27_SwapKeepsForm ==
    sw_call # <<>> =>
        LET dixon == sw_call[1].dixon
            ret == sw_ret[1]
        IN  /\ Len(ret) = 4
            /\ SubSeq(ret, 1, 3) = SubSeq(dixon, 1, 3)
            /\ ret[4][1] = dixon[4][1]
            /\ dixon[4][1] = "tuple" =>
                ret \in series_of(Place(ret) :> <<"volume">>, SubSeq(ret, 1, 3))

(***************************************************************************)
(* Properties of the drivers (SpecDriver)                                  *)
(***************************************************************************)

\* The channel a place is named for: the last two tokens of its series
\* description
ChannelOf(place) == SubSeq(place[4], Len(place[4]) - 1, Len(place[4]))

\* The places the drivers that split by echo time write to: all of Bari,
\* and patient 3128_111 of Exeter at baseline
SplitByEchoTime(place) ==
    IF site = "bari" THEN TRUE
    ELSE IF site = "exeter_patients" /\ visit = "Baseline" THEN place[2] = <<"3", "1", "2", "8", "_", "1", "1", "1">>
    ELSE FALSE

\* The echo times of the series in the archive a volume was read from
EchoTimes(v) ==
    LET split == src[v.ref[1]][v.ref[2]].split
    IN  { split[j].key : j \in 1..Len(split) }

\* C2: whenever a series holding two echo times is split (bari, bari_030,
\* exeter_111), the volume written under ..._out_phase is read from the
\* sub-series with the lower echo time and the volume written under
\* ..._in_phase from the sub-series with the higher echo time, in whatever
\* order the split returns the two.
C2_LowEchoIsOutPhase ==
    \A place \in DOMAIN store :
        SplitByEchoTime(place) =>
            \A n \in 1..Len(store[place]) :
                LET v == store[place][n]
                IN  /\ Cardinality(EchoTimes(v)) = 2
                    /\ ChannelOf(place) \in {out_phase, in_phase}
                    /\ ChannelOf(place) = out_phase => \A t \in EchoTimes(v) : v.ref[3] <= t
                    /\ ChannelOf(place) = in_phase => \A t \in EchoTimes(v) : v.ref[3] >= t

\* a series whose split returns the higher echo time first has been written
C2_Witness ==
    /\ site = "bari"
    /\ \E place \in DOMAIN store :
        LET v == store[place][1]
            split == src[v.ref[1]][v.ref[2]].split
        IN  /\ split[1].key > split[2].key
            /\ ChannelOf(place) = out_phase
            /\ v.ref[3] = split[2].key

\* C4: when a driver that ran to its end is run again on the same archives
\* and the same database, the second run issues no write.
C4_SecondRunWritesNothing ==
    (Len(ended) >= 1 /\ ended[1] = "done") =>
        \A n \in 1..Len(writes) : writes[n].run = 1

\* C7: write_volume is never issued for a place that already holds a
\* volume.
C7_NeverWritesToPresent ==
    \A n \in 1..Len(writes) : ~writes[n].present

\* C8: after an archive that failed to be classified (description not in
\* the dictionary, attribute absent) or that held one echo time only, the
\* ledger of the patient is what it was before the archive.
C8_FailureLeavesLedger ==
    last.what \in {"renaming", "one"} => pat_series = last.before

\* C9: no failure on one archive ends the run of a driver.
C9_NoFailureEndsRun ==
    pc # "aborted"

\* The with-block a driver is in, if any: bari and turku_philips open one
\* for each archive, the other drivers one for each patient
OpenTemporaryDirectories ==
    CASE pc = "inwith" -> {<<run, pi, si>>}
      [] pc \in {"write", "leeds_054", "exeter_111"} -> {<<run, pi, 0>>}
      [] pc = "series" /\ site \notin {"bari", "turku_philips"} -> {<<run, pi, 0>>}
      [] OTHER -> {}

\* C10: a temporary directory exists only while the driver is inside the
\* with-block that created it; it is gone when the processing of the
\* archive (bari, turku_philips) or of the patient (the other drivers)
\* has ended, whether by the end of the block, by continue or by an
\* exception.
C10_TemporaryDirectoriesRemoved ==
    temps = OpenTemporaryDirectories

\* at Bari one archive was written, the next was left for holding one echo
\* time, and both directories are gone
C10_Witness ==
    /\ site = "bari"
    /\ pc = "series"
    /\ made >= 2
    /\ writes # <<>>
    /\ last.what = "one"
    /\ temps = {}

(***************************************************************************)
(* Properties of the reading of slices (SpecAssemble)                      *)
(***************************************************************************)

\* The files of the series, stored in ascending order of location
StoredInOrder ==
    LET n == Len(ip_series)
        at(r) == CHOOSE i \in 1..n :
                    Cardinality({ j \in 1..n :
                        ip_series[j].SliceLocation < ip_series[i].SliceLocation }) = r - 1
    IN  [r \in 1..n |-> [ip_series[at(r)] EXCEPT !.InstanceNumber = r]]

\* Reading by location, as the library does it
ByLocation(files) == db_pixel_data(files, "SliceLocation")

\* What the step taken gives for files stored in ascending order
AssembledInOrder ==
    LET series == ByLocation(StoredInOrder)
    IN  CASE ip_fn = "volume" -> Assembled(Interpolated(FALSE, series.arr), series)
          [] ip_fn = "exeter_interpolate_vol" -> Assembled(exeter_interpolate_vol(series), series)
          [] ip_fn = "bari_030_out_phase" -> Assembled(bari_030_out_phase(series), series)
          [] ip_fn = "bari_030_in_phase" -> Assembled(bari_030_in_phase(series), series)

GapIndex(crd) ==
    FirstIndex({ i \in 1..(Len(crd) - 1) : crd[i + 1] - crd[i] > crd[2] - crd[1] })

\* C15: a repair that inserts m frames into the gap between the frames A
\* and B gives as k-th inserted frame (k = 0..m-1, counted from A)
\* (m-k)/(m+1) * A + (k+1)/(m+1) * B; for m = 2 (out-phase branch of
\* bari_030) the first is 2/3 A + 1/3 B and the second 1/3 A + 2/3 B.
C15_InterpolationWeights ==
    (ip_fn \in {"exeter_interpolate_vol", "bari_030_out_phase", "bari_030_in_phase"}
        /\ ~ip_out.raised) =>
        LET series == ByLocation(ip_series)
            arr == series.arr
            out == ip_out.pixel_data
            i0 == GapIndex(series.crd)
            m == Len(out) - Len(arr)
        IN  (/\ i0 > 0
             /\ SubSeq(out, 1, i0) = SubSeq(arr, 1, i0)
             /\ SubSeq(out, i0 + m + 1, Len(out)) = SubSeq(arr, i0 + 1, Len(arr))) =>
                \A k \in 0..(m - 1) :
                    (m + 1) * out[i0 + 1 + k] = (m - k) * arr[i0] + (k + 1) * arr[i0 + 1]

(***************************************************************************)
(* Further properties of the drivers (SpecDriver)                          *)
(***************************************************************************)

\* The image type a place is named for: the tokens after the index
ImageTypeOf(place) ==
    LET desc == IF place[4][1] \in {"str", "tuple"} THEN DescOf(place[4]) ELSE place[4]
    IN  IF desc[Len(desc)] = "phase" THEN SubSeq(desc, Len(desc) - 1, Len(desc))
        ELSE <<desc[Len(desc)]>>

\* C16: when assembling the volume of a series (or of one sub-series of a
\* split) fails, nothing is written for it; equivalently every volume in
\* the store holds the pixels of the series classified to its place: at
\* Turku Philips the volume at a place named for an image type is read from
\* the sub-series of that image type, and at every site no series has its
\* volume at two places.
C16_WrittenFromOwnSeries ==
    \A place \in DOMAIN store :
        \A n \in 1..Len(store[place]) :
            LET v == store[place][n]
            IN  /\ site = "turku_philips" =>
                    ImageTypeOf(place) = (CASE v.ref[3] = "OP" -> out_phase
                                            [] v.ref[3] = "IP" -> in_phase
                                            [] v.ref[3] = "W" -> water
                                            [] v.ref[3] = "F" -> fat
                                            [] OTHER -> <<>>)
                /\ \A other \in DOMAIN store \ {place} :
                    \A j \in 1..Len(store[other]) : store[other][j].ref # v.ref

\* The Leeds archives taken up whose series has an image-type token
\* ImageType[3] that is none of IN_PHASE, OUT_PHASE, WATER, FAT
Unrecognized ==
    { a \in { <<p, i>> : p \in DOMAIN src, i \in 1..MaxRepeats } :
        LET p == a[1]
            i == a[2]
        IN  IF i > Len(src[p]) THEN FALSE
            ELSE IF "folder" \notin DOMAIN src[p][i] THEN FALSE   \* leeds_054
            ELSE IF ~src[p][i].zip THEN FALSE
            ELSE IF Len(src[p][i].folder.ImageType) < 4 THEN FALSE
            ELSE src[p][i].folder.ImageType[4] \notin {IN_PHASE, OUT_PHASE, WATER, FAT} }

\* C17: a Leeds series whose image-type token is none of IN_PHASE,
\* OUT_PHASE, WATER, FAT is reported (an error-log entry for the series),
\* and where a volume of it is stored the token is the image type of its
\* place, verbatim; it is never stored without the report.
C17_UnrecognizedReported ==
    site = "leeds" =>
        \A a \in Unrecognized :
            /\ \E n \in 1..Len(log) : log[n].pi = a[1] /\ log[n].si = a[2]
            /\ \A place \in DOMAIN store :
                \A n \in 1..Len(store[place]) :
                    (store[place][n].ref[1] = a[1] /\ store[place][n].ref[2] = a[2]) =>
                        ImageTypeOf(place) = src[a[1]][a[2]].folder.ImageType[4]

\* Dixon[_post_contrast]_<k>_<type>, k a positive integer (one digit is
\* enough for the ledgers of the model), type one of in_phase, out_phase,
\* fat, water
Grammar ==
    { prefix \o <<Str(k)>> \o type :
        prefix \in {<<"Dixon">>, <<"Dixon", "post", "contrast">>},
        k \in 1..9,
        type \in {in_phase, out_phase, fat, water} }

\* C19: every channel name under which a volume is written to the store,
\* at every site, matches the grammar Dixon[_post_contrast]_<k>_<type>.
C19_ChannelGrammar ==
    \A place \in DOMAIN store :
        (IF place[4][1] \in {"str", "tuple"} THEN DescOf(place[4]) ELSE place[4]) \in Grammar

\* The dictionary of the classifier of a site using description lookup
Dictionary ==
    CASE site = "sheffield" -> DOMAIN sheffield_new_series_desc
      [] site = "turku_ge" -> DOMAIN turku_new_series_desc
      [] site = "bordeaux_patients" -> DOMAIN bordeaux_new_series_desc
      [] site = "exeter_patients" -> DOMAIN exeter_new_series_desc

\* C18: at a site using description lookup (Bordeaux, Exeter, Sheffield,
\* Turku GE) a series whose description is not an entry of the site's
\* dictionary is a classification failure, for every manufacturer: the
\* failure is logged for the series (it receives no name) and no volume of
\* it is written.
C18_DictionaryMissFails ==
    site \in {"sheffield", "turku_ge", "bordeaux_patients", "exeter_patients"} =>
        \A p \in DOMAIN src :
            \A i \in DOMAIN src[p] :
                LET k == src[p][i]
                    miss == IF "folder" \notin DOMAIN k THEN FALSE     \* exeter_111
                            ELSE k.zip /\ k.folder.SeriesDescription \notin Dictionary
                IN  miss =>
                        /\ \E n \in 1..Len(log) :
                            log[n] = [pi |-> p, si |-> i, what |-> "error renaming"]
                        /\ \A place \in DOMAIN store :
                            \A n \in 1..Len(store[place]) :
                                ~(store[place][n].ref[1] = p /\ store[place][n].ref[2] = i)

\* A step of the series loop in which the classifier returned a name
Classified ==
    /\ last' # last
    /\ \/ last'.what = "named"
       \/ site = "leeds" /\ pc = "series" /\ last'.what \in {"written", "volume"}

\* C20: during the processing of one patient the ledger only grows: a step
\* leaves it as it is or appends one name to it, each successful
\* classification appends exactly one name, also when a later step for the
\* series fails, and the processing of each patient starts with an empty
\* ledger.
C20_LedgerOnlyGrows ==
    [][ /\ (pi' = pi /\ run' = run) =>
            \/ pat_series' = pat_series
            \/ /\ Len(pat_series') = Len(pat_series) + 1
               /\ SubSeq(pat_series', 1, Len(pat_series)) = pat_series
        /\ Classified => Len(pat_series') = Len(pat_series) + 1
        /\ (pi' # pi /\ pc' = "series") => pat_series' = <<>>
      ]_vars

\* the second series of a patient was named and then failed in the split,
\* and both names are in the ledger
C20_Witness ==
    /\ site = "bari"
    /\ last.what = "one"
    /\ Len(pat_series) = 2

\* The series of an archive, as the volumes written name them
SeriesIn(p, i) ==
    LET k == src[p][i]
    IN  IF "split" \in DOMAIN k
        THEN { Series(p, i, k.split[j].key) : j \in DOMAIN k.split }
        ELSE { Series(p, i, "") }

\* The log entry is about an assembly that failed in an archive of the
\* series loop (leeds_054 logs by series number), and the archive is now
\* sound: each of its series can be assembled
RepairedFailure(entry) ==
    IF entry.what # "volume" THEN FALSE
    ELSE IF entry.si \notin DOMAIN src[entry.pi] THEN FALSE
    ELSE LET k == src[entry.pi][entry.si]
         IN  IF "SeriesNumber" \in DOMAIN k THEN FALSE
             ELSE IF "split" \in DOMAIN k THEN \A j \in DOMAIN k.split : k.split[j].ok
             ELSE k.ok

\* C12: when a run left series unwritten because their assembly failed,
\* and the failure is repaired in the source, a later run that comes to its
\* end has written every such series, and it has written to no place that
\* held a volume.
C12_RerunFillsGaps ==
    (run = 2 /\ pc = "done") =>
        /\ \A n \in 1..Len(log) :
            RepairedFailure(log[n]) =>
                \A ref \in SeriesIn(log[n].pi, log[n].si) :
                    \E place \in DOMAIN store :
                        \E j \in 1..Len(store[place]) : store[place][j].ref = ref
        /\ \A n \in 1..Len(writes) : writes[n].run = 2 => ~writes[n].present

\* A volume read from archive i of patient p is in the store
Stored(p, i) ==
    \E place \in DOMAIN store :
        \E j \in 1..Len(store[place]) :
            store[place][j].ref[1] = p /\ store[place][j].ref[2] = i

\* The error log has an entry for archive i of patient p
InLog(p, i) == \E n \in 1..Len(log) : log[n].pi = p /\ log[n].si = i

\* C13: every series a driver takes up and for which no volume is written,
\* for another reason than that its place exists, has an entry in the error
\* log: every step on an archive that ends without a write and without
\* finding the place leaves an entry, and when the ordered write phase of a
\* patient is over (sheffield, turku_ge, bordeaux_patients,
\* exeter_patients) every archive of the patient has a volume or an entry,
\* whatever its repetition index.
C13_NoSilentDrop ==
    /\ (/\ last.what \in {"extracting", "renaming", "splitting", "one", "volume", "raised"}
        /\ ~Stored(last.pi, last.si)) => InLog(last.pi, last.si)
    /\ (/\ site \in {"sheffield", "turku_ge", "bordeaux_patients", "exeter_patients"}
        /\ run = 1
        /\ pc = "patients"
        /\ pi >= 1) =>
            \A i \in DOMAIN src[pi] :
                "folder" \in DOMAIN src[pi][i] => (Stored(pi, i) \/ InLog(pi, i))

(***************************************************************************)
(* Properties of two processes running one driver (SpecWorkers)            *)
(***************************************************************************)

\* C14: when two processes run a site driver at the same time on the same
\* database, no place is written by both: a process never writes a place
\* that the other has found absent and writes.  (One process alone writes
\* no place of leeds and bari twice, so that a place holding two volumes was
\* written by both.)
C14_NoPlaceWrittenByBoth ==
    \A place \in DOMAIN store : Len(store[place]) <= 1

(***************************************************************************)
(* Properties of the names within one run (SpecDriver)                     *)
(***************************************************************************)

\* C21: within one run the channel names given to the series of one
\* patient and study are pairwise distinct: the ledger of a patient holds
\* no name twice, and no two volumes are written under the same address in
\* the same run.
C21_NamesDistinct ==
    /\ \A i, j \in 1..Len(pat_series) : i # j => pat_series[i] # pat_series[j]
    /\ \A m, n \in 1..Len(writes) :
        (m # n /\ writes[m].run = writes[n].run) => writes[m].place # writes[n].place

\* The archive last dealt with was handed to a gap repair that did not find
\* its boundary: at Bari the first pre-contrast series of 1128_030, one of
\* whose sub-series has no slice at the audited location (or has it as its
\* last slice); at Exeter a post-contrast in-phase series of 3128_044 at
\* baseline without a spacing jump of 3 mm
BoundaryNotFound ==
    IF last.pi = 0 THEN FALSE
    ELSE IF last.what \notin {"raised", "volume", "written"} THEN FALSE
    ELSE LET k == src[last.pi][last.si]
             id == pat_id_of(site, patients[site][last.pi])
         IN  CASE site = "bari" ->
                    /\ id = <<"1", "1", "2", "8", "_", "0", "3", "0">>
                    /\ pat_series[Len(pat_series)] = Dixon_1_
                    /\ Len(k.split) = 2
                    /\ \/ bari_030_out_phase(k.split[out_phase_index(k.split)]).raised
                       \/ bari_030_in_phase(k.split[in_phase_index(k.split)]).raised
               [] site = "exeter_patients" ->
                    /\ visit = "Baseline"
                    /\ id = <<"3", "1", "2", "8", "_", "0", "4", "4">>
                    /\ k.folder.SeriesDescription = "T1w_abdomen_post_contrast_dixon_cor_bh_in"
                    /\ exeter_interpolate_vol(k).raised
               [] OTHER -> FALSE

\* C22: when a gap repair does not find its boundary in the data, the
\* failure is in the error log for the patient and the series, no volume of
\* the series is in the store, and the run goes on.
C22_GapFailureSurfaced ==
    BoundaryNotFound =>
        /\ InLog(last.pi, last.si)
        /\ ~Stored(last.pi, last.si)
        /\ pc # "aborted"

\* C23: every volume in the store carries the affine built from a slice of
\* the series its pixels were read from, on the plain path and on the
\* gap-repair paths (both volumes of bari_030, exeter_interpolate_vol).
C23_AffineOfOwnSeries ==
    \A place \in DOMAIN store :
        \A n \in 1..Len(store[place]) :
            store[place][n].affine = store[place][n].ref

\* The series a stored volume was read from, as the archive holds it
InputOf(v) ==
    LET k == src[v.ref[1]][v.ref[2]]
    IN  IF "split" \in DOMAIN k
        THEN k.split[CHOOSE j \in DOMAIN k.split : k.split[j].key = v.ref[3]]
        ELSE k

\* The audited defect locations: the first pre-contrast series of Bari
\* 1128_030, and at Exeter (baseline) the post-contrast in-phase series of
\* 3128_044, the post-contrast fat series of 3128_082 and the post-contrast
\* out-phase series of 3128_120
Audited(place) ==
    \/ /\ site = "bari"
       /\ place[2] = <<"1", "1", "2", "8", "_", "0", "3", "0">>
       /\ SubSeq(place[4], 1, 2) = <<"Dixon", "1">>
    \/ /\ site = "exeter_patients"
       /\ visit = "Baseline"
       /\ SubSeq(place[4], 1, 3) = <<"Dixon", "post", "contrast">>
       /\ <<place[2], ImageTypeOf(place)>> \in
            { << <<"3", "1", "2", "8", "_", "0", "4", "4">>, in_phase >>,
              << <<"3", "1", "2", "8", "_", "0", "8", "2">>, fat >>,
              << <<"3", "1", "2", "8", "_", "1", "2", "0">>, out_phase >> }

\* C24: a stored volume holds frames that are not frames of its series only
\* at an audited defect location, and then the frames of the series in
\* their order with the new frames between two adjacent slices that are
\* further apart than the slices of the series are spaced; every other
\* volume holds exactly the frames of its series.
C24_SynthesisOnlyInGaps ==
    \A place \in DOMAIN store :
        \A n \in 1..Len(store[place]) :
            LET v == store[place][n]
            IN  IF place[2] = <<"4", "1", "2", "8", "_", "0", "5", "4">> THEN TRUE  \* one image per archive
                ELSE LET input == InputOf(v)
                         m == Len(v.pixel_data) - Len(input.arr)
                         i0 == GapIndex(input.crd)
                     IN  IF m = 0 THEN v.pixel_data = input.arr
                         ELSE /\ Audited(place)
                              /\ i0 > 0
                              /\ SubSeq(v.pixel_data, 1, i0) = SubSeq(input.arr, 1, i0)
                              /\ SubSeq(v.pixel_data, i0 + m + 1, Len(v.pixel_data))
                                    = SubSeq(input.arr, i0 + 1, Len(input.arr))

\* The series number in the name of archive i of folder p.  Where the
\* listing is sorted by that number and the model gives none, the position
\* in the listing stands for it
ArchiveNumber(p, i) ==
    LET k == src[p][i]
    IN  CASE site = "leeds" -> k.nr
          [] site \in {"bari", "turku_philips"} -> BariArchiveNumber(k, i)
          [] site = "exeter_patients" /\ "split" \in DOMAIN k -> ExeterArchiveNumber(k, i)
          [] OTHER -> i

\* The repetition index of a channel name
IndexOf(desc) == CHOOSE n \in 1..9 : Str(n) = desc[IndexAt(desc)]

\* C25: of two series of one patient with the same base channel name, the
\* one with the lower series number has the lower repetition index, at
\* every site and for every order in which the archives are listed.
C25_AscendingRepetition ==
    \A a, b \in DOMAIN store :
        \A m \in 1..Len(store[a]), n \in 1..Len(store[b]) :
            LET va == store[a][m]
                vb == store[b][n]
            IN  IF a[2] = <<"4", "1", "2", "8", "_", "0", "5", "4">> THEN TRUE   \* no repetitions
                ELSE (/\ va.ref[1] = vb.ref[1]
                      /\ [a[4] EXCEPT ![IndexAt(a[4])] = "1"] = [b[4] EXCEPT ![IndexAt(b[4])] = "1"]
                      /\ ArchiveNumber(va.ref[1], va.ref[2]) < ArchiveNumber(vb.ref[1], vb.ref[2]))
                     => IndexOf(a[4]) < IndexOf(b[4])

\* The visit a source folder of Turku is named for
VisitOf(folder) ==
    IF Contains(folder, <<"_", "f", "o", "l", "l", "o", "w", "u", "p">>)
    THEN "Followup" ELSE "Baseline"

\* C26: at Turku (GE and Philips) the time point derived from a folder whose
\* name contains '_followup' is 'Followup' and that of every other folder
\* 'Baseline', and every volume is stored in the study named for the visit
\* of the folder it was read from.
C26_FollowupStudy ==
    site \in {"turku_ge", "turku_philips"} =>
        /\ \A p \in 1..pi :
            LET id == IF site = "turku_ge" THEN turku_ge_ibeat_patient_id(patients[site][p])
                      ELSE turku_philips_ibeat_patient_id(patients[site][p])
            IN  id.time_point = VisitOf(patients[site][p])
        /\ \A place \in DOMAIN store :
            \A n \in 1..Len(store[place]) :
                place[3] = VisitOf(patients[site][store[place][n].ref[1]])

(***************************************************************************)
(* Properties of largest_cluster_label (SpecCluster)                       *)
(***************************************************************************)

\* The voxels S hang together: every split of S into two parts has two
\* neighbours across it
Connected(S) ==
    \A T \in SUBSET S :
        (T # {} /\ T # S) => \E u \in T, v \in S \ T : Adjacent(u, v)

\* C28: in the image largest_cluster_label returns every voxel is 0 or has
\* the label it has in the input; for each label of the input other than 0
\* the voxels with that label in the result are one cluster of that label
\* in the input (connected, with no further voxel of the label next to it),
\* and no connected set of voxels of that label in the input is larger;
\* applied to its own result the function returns the result.
C28_LargestClusterKept ==
    mask_fn = "largest_cluster_label" =>
        LET array == mask_in
            out == mask_out[1]
        IN  /\ \A v \in Voxels : out[v] = 0 \/ out[v] = array[v]
            /\ \A l \in { array[v] : v \in Voxels } \ {0} :
                LET all == { v \in Voxels : array[v] = l }
                    kept == { v \in Voxels : out[v] = l }
                IN  /\ kept # {}
                    /\ kept \subseteq all
                    /\ Connected(kept)
                    /\ \A v \in all \ kept : \A u \in kept : ~Adjacent(u, v)
                    /\ \A C \in SUBSET all :
                        Cardinality(C) > Cardinality(kept) => ~Connected(C)
            /\ Len(mask_out) = 2 => mask_out[2] = mask_out[1]

\* a label has clusters of different sizes, the smaller one met first, and
\* the function was applied twice
C28_Witness ==
    /\ mask_fn = "largest_cluster_label"
    /\ Len(mask_out) = 2
    /\ mask_in[<<1, 1>>] = 1
    /\ mask_out[1][<<1, 1>>] = 0
    /\ \E v \in Voxels : mask_out[1][v] = 1
    /\ \E v \in Voxels : mask_out[1][v] = 2

\* C29: the label image convert_manual_masks writes holds only the values
\* 0, 1 and 2, whatever the two edited masks are: overlapping or not, both
\* present or only one.
C29_LabelsZeroOneTwo ==
    mask_fn = "convert_manual_masks" =>
        \A i \in 1..Len(mask_out) : \A v \in Voxels : mask_out[i][v] \in {0, 1, 2}

\* C30: edit_auto_masks writes the edited mask series only when the mask the
\* editor returned differs from the automatic mask the editor was started
\* with; a mask left as it was is not written.
C30_WrittenOnlyIfEdited ==
    (mask_fn = "edit_auto_masks" /\ mask_out # <<>>) =>
        mask_out[1] # mask_in.auto_mask
====
